---- MODULE Spec2Model ----
(***************************************************************************)
(* Background task subsystem of the calendar service: the Create handler's *)
(* non-blocking hand-off of reminders (internal/api/handlers/event         *)
(* create.go), the reminder worker (internal/worker/reminder/worker.go),   *)
(* the archiver worker (internal/worker/archiver) and the shutdown         *)
(* sequence of cmd/server/main.go.                                         *)
(*                                                                         *)
(* Time is a discrete clock `now`.  Every goroutine is a process whose     *)
(* position is a pc variable; a Go select is one step that takes any of    *)
(* the cases that are ready at the moment the step is taken.               *)
(***************************************************************************)
EXTENDS Integers, Sequences, FiniteSets

\* ------------------------------------------------------------- bounds
\* Number of Create requests (each carries at most one reminder).
MaxReq == 2
\* Capacity of reminderCh; main.go:60 uses 100, the model scales it down.
QueueCap == 1
\* Last instant of the discrete clock.
MaxTime == 1
\* Number of distinct users issuing requests.
MaxUsers == 2

Min(a, b) == IF a < b THEN a ELSE b
Max(a, b) == IF a > b THEN a ELSE b

\* Number of Create requests in the specifications with fairness.
MaxFairReq == 1

\* Number of rows ever inserted into the events table by direct calls of the
\* repository.
MaxEvents == 2
\* Ticks the ticker can fire while one archive call is in progress.
MaxTicks == 2

\* Number of calls of user Service.Create, and of distinct emails.
MaxCalls == 3
MaxEmails == 2

\* Number of HTTP requests passing the logging middleware.
MaxLogReq == 4
\* Capacity of logCh; main.go:89 uses 100, the model scales it down.
LogCap == 2

\* The calendar of the date queries, scaled down: months 1..MaxMonth can be
\* asked for; odd months have LongMonth days, even months one day less.
MaxMonth == 2
LongMonth == 3

\* Number of Login requests.
MaxLogin == 3

Reqs == 1..MaxReq
Logins == 1..MaxLogin
LogReqs == 1..MaxLogReq
Calls == 1..MaxCalls
Emails == 1..MaxEmails
FairReqs == 1..Min(MaxFairReq, MaxReq)
Users == 1..MaxUsers
Times == 0..MaxTime

\* The nil *time.Time of CreateRequest.ReminderAt.
NoReminder == -1

\* CURRENT_DATE values and event_date values: the clock counts days.
Dates == Times

\* The event_date of request r (CreateRequest.Date).
EventDateOfReq(r) == (r - 1) % (MaxTime + 1)

\* The authenticated user of request r (user id in the request context).
UserOfReq(r) == ((r - 1) % MaxUsers) + 1

\* users.email of user u (the row GetUserByID scans).
EmailOf(u) == 100 + u

VARIABLES
    now,             \* wall clock (time.Now)
    cancelled,       \* ctx of signal.NotifyContext is done
    qAtCancel,       \* history: reminders buffered when the signal fired
    pendingAtCancel, \* history: goroutines waiting on an unelapsed timer then
    closed,          \* reminderCh has been closed
    qAtClose,        \* history: reminders buffered when the channel was closed
    hpc,             \* Create handler of request r: "idle", "enqueue", "done"
    status,          \* HTTP status written to the response of r (0: none yet)
    evId,            \* id returned by eventService.CreateEvent for r (0: uuid.Nil)
    result,          \* outcome of the select at create.go:80-86
    remindAt,        \* req.ReminderAt / Reminder.RemindAt
    userOf,          \* Reminder.UserID
    queue,           \* buffer of reminderCh
    dpc,             \* goroutine of Worker.Start
    dcur,            \* reminder the dispatcher has received and not yet spawned
    wg,              \* counter of Worker.wg
    gpc,             \* goroutine of handleReminder for r
    timer,           \* duration (pc "arm") or deadline of time.After (pc "wait"), else 0
    lookup,          \* result of userService.GetByID for r
    email,           \* user.Email as returned by the lookup
    outcome,         \* how handleReminder returned
    sent,            \* calls of notifier.Send made for r
    spc,             \* caller of Worker.Stop
    mainPc,          \* main goroutine
    graceExpired,    \* shutdownCtx deadline exceeded
    shutdownErr,     \* what s.Shutdown returned: "none" (not yet), "nil", "deadline"
    apc,             \* goroutine of archiver.Worker.Start
    tickPending,     \* ticker.C holds a tick
    archRunning,     \* calls of ArchiveOldEvents that have not returned
    ticksInRun,      \* ticks fired since the call in progress started
    archSel,         \* rows the INSERT ... SELECT of the open transaction copied
    archDate,        \* CURRENT_DATE of the latest archive transaction
    archAtCancel,    \* history: the latest archive call was in progress when the signal fired
    events,          \* table events: rows [id, user, date]
    archived,        \* table archived_events: rows [id, user, date, copy]
    nextId,          \* next value of uuid_generate_v4 (ids are never reused)
    lastOp,          \* history: what the latest repository calls were
    lastDel,         \* history: <<eventID, userID>> of the latest DeleteEvent
    deleted,         \* history: the <<eventID, userID>> DeleteEvent removed
    lastErr,         \* error returned by the latest repository call
    users,           \* table users: rows [id, email]
    upc,             \* call c of user Service.Create: "idle", "check", "hash", "insert", "done"
    uemail,          \* email argument of call c
    takenAtCall,     \* history: the email had a user when call c was made
    createUserCalls, \* calls of userRepo.CreateUser made by call c
    uid,             \* id returned by call c (0: uuid.Nil)
    uerr,            \* error returned by call c
    lpc,             \* request q in the logging middleware: "idle", "served", "done"
    lresp,           \* HTTP status the handler wrote for q (0: none yet)
    logResult,       \* outcome of the middleware's send of q's LogEntry
    logCh,           \* buffer of logCh
    logAccepted,     \* history: entries accepted into logCh, in order
    sinkPc,          \* goroutine of StartAsyncLogger: "recv", "write"
    sinkCur,         \* entry the sink has received and not yet written
    written,         \* entries written to the zap logger, in order
    query,           \* the latest date query of the repository and what it returned
    lastUpd,         \* history: <<eventID, reminder_at>> of the latest UpdateEvent that changed a row
    login            \* Login request l: what the service returned and what was written to w

envvars == <<now, cancelled, qAtCancel, pendingAtCancel, closed, qAtClose>>
hvars == <<hpc, status, evId, result, remindAt, userOf>>
dvars == <<dpc, dcur, wg>>
gvars == <<gpc, timer, lookup, email, outcome, sent>>
svars == <<spc>>
mvars == <<mainPc, graceExpired, shutdownErr>>
avars == <<apc, tickPending, archRunning, ticksInRun, archSel, archDate, archAtCancel>>
tvars == <<events, archived, nextId, lastOp, lastDel, deleted, lastErr>>
uvars == <<users, upc, uemail, takenAtCall, createUserCalls, uid, uerr>>
lvars == <<lpc, lresp, logResult, logCh, logAccepted, sinkPc, sinkCur, written>>
qvars == <<query, lastUpd, login>>
yvars == <<uvars, lvars, qvars>>
xvars == <<tvars, yvars>>
vars == <<envvars, hvars, queue, dvars, gvars, svars, mvars, avars, xvars>>

\* ------------------------------------------------------------- helpers
Range(s) == {s[i] : i \in 1..Len(s)}
InQueue(r) == r \in Range(queue)
Attempted == {r \in Reqs : result[r] # "none"}
Accepted == {r \in Reqs : result[r] = "accepted"}
Rejected == {r \in Reqs : result[r] = "rejected"}

\* The process has not exited: after main returns or log.Fatal calls
\* os.Exit no goroutine takes another step.
Alive == mainPc \notin {"exited", "fatal"}

\* The HTTP server still accepts new requests (before s.Shutdown).
Serving == mainPc = "wait"

\* ------------------------------------------------------------- Init
Init ==
    /\ now = 0
    /\ cancelled = FALSE
    /\ qAtCancel = {}
    /\ pendingAtCancel = {}
    /\ closed = FALSE
    /\ qAtClose = {}
    /\ hpc = [r \in Reqs |-> "idle"]
    /\ status = [r \in Reqs |-> 0]
    /\ evId = [r \in Reqs |-> 0]
    /\ result = [r \in Reqs |-> "none"]
    /\ remindAt = [r \in Reqs |-> NoReminder]
    /\ userOf = [r \in Reqs |-> 0]
    /\ queue = <<>>
    /\ dpc = "idle"
    /\ dcur = 0
    /\ wg = 0
    /\ gpc = [r \in Reqs |-> "none"]
    /\ timer = [r \in Reqs |-> 0]
    /\ lookup = [r \in Reqs |-> "none"]
    /\ email = [r \in Reqs |-> 0]
    /\ outcome = [r \in Reqs |-> "none"]
    /\ sent = [r \in Reqs |-> <<>>]
    /\ spc = "idle"
    /\ mainPc = "wait"
    /\ graceExpired = FALSE
    /\ shutdownErr = "none"
    /\ apc = "select"
    /\ tickPending = FALSE
    /\ archRunning = 0
    /\ ticksInRun = 0
    /\ archSel = {}
    /\ archDate = 0
    /\ archAtCancel = FALSE
    /\ events = {}
    /\ archived = {}
    /\ nextId = 1
    /\ lastOp = "none"
    /\ lastDel = <<0, 0>>
    /\ deleted = {}
    /\ users = {}
    /\ upc = [c \in Calls |-> "idle"]
    /\ uemail = [c \in Calls |-> 0]
    /\ takenAtCall = [c \in Calls |-> FALSE]
    /\ createUserCalls = [c \in Calls |-> 0]
    /\ uid = [c \in Calls |-> 0]
    /\ uerr = [c \in Calls |-> "none"]
    /\ lpc = [q \in LogReqs |-> "idle"]
    /\ lresp = [q \in LogReqs |-> 0]
    /\ logResult = [q \in LogReqs |-> "none"]
    /\ logCh = <<>>
    /\ logAccepted = <<>>
    /\ sinkPc = "recv"
    /\ sinkCur = 0
    /\ written = <<>>
    /\ lastErr = "nil"
    /\ query = [op |-> "none"]
    /\ lastUpd = <<0, NoReminder>>
    /\ login = [l \in Logins |-> [pc |-> "idle", res |-> "none", writes |-> <<>>]]

\* ------------------------------------------------------------- clock, signal
\* Time passes, up to the instant limit.
AdvanceOn(limit) ==
    /\ Alive
    /\ now < limit
    /\ now' = now + 1
    /\ UNCHANGED <<cancelled, qAtCancel, pendingAtCancel, closed, qAtClose>>
    /\ UNCHANGED <<hvars, queue, dvars, gvars, svars, mvars, avars, xvars>>

\* Time passes.
Advance == AdvanceOn(MaxTime)

\* Time passes beyond the last remindAt as well, for as long as an armed
\* timer has not fired: a timer armed at instant t for the duration computed
\* earlier fires as late as t + MaxTime.
TimerPending == \E r \in Reqs : gpc[r] = "wait" /\ now < timer[r]
AdvanceLate == AdvanceOn(IF TimerPending THEN now + 1 ELSE MaxTime)

\* A signal that toggles the context: a second signal makes it live again.
SignalToggles ==
    /\ Alive
    /\ cancelled' = ~cancelled
    /\ qAtCancel' = Range(queue)
    /\ pendingAtCancel' = {r \in Reqs : gpc[r] = "wait" /\ now < timer[r]}
    /\ archAtCancel' = (apc = "archiving")
    /\ UNCHANGED <<now, closed, qAtClose>>
    /\ UNCHANGED <<apc, tickPending, archRunning, ticksInRun, archSel, archDate>>
    /\ UNCHANGED <<hvars, queue, dvars, gvars, svars, mvars, xvars>>

\* SIGINT/SIGTERM: the context of signal.NotifyContext is cancelled, once.
Signal ==
    /\ Alive
    /\ ~cancelled
    /\ cancelled' = TRUE
    /\ qAtCancel' = Range(queue)
    /\ pendingAtCancel' = {r \in Reqs : gpc[r] = "wait" /\ now < timer[r]}
    /\ archAtCancel' = (apc = "archiving")
    /\ UNCHANGED <<now, closed, qAtClose>>
    /\ UNCHANGED <<apc, tickPending, archRunning, ticksInRun, archSel, archDate>>
    /\ UNCHANGED <<hvars, queue, dvars, gvars, svars, mvars, xvars>>

\* The owner of reminderCh closes it (main.go never does; Worker.Start
\* provides for it at worker.go:59).  The values already buffered stay
\* receivable.
Close ==
    /\ Alive
    /\ ~closed
    /\ closed' = TRUE
    /\ qAtClose' = Range(queue)
    /\ UNCHANGED <<now, cancelled, qAtCancel, pendingAtCancel>>
    /\ UNCHANGED <<hvars, queue, dvars, gvars, svars, mvars, avars, xvars>>

\* ------------------------------------------------------------- tables
\* INSERT INTO events (...) VALUES (...) RETURNING id: the row gets a fresh id.
InsertEvent(ev, id, u, d) == ev \cup {[id |-> id, user |-> u, date |-> d]}

\* The rows matched by WHERE event_date < CURRENT_DATE.
OldEvents(ev, today) == {e \in ev : e.date < today}

\* INSERT INTO archived_events (...) SELECT ... : one new row per selected
\* row.  copy numbers the rows of archived_events that carry the same id, so
\* that a row archived twice shows as two rows.
ArchiveInsert(ar, rows) ==
    ar \cup {[id |-> e.id, user |-> e.user, date |-> e.date,
              copy |-> 1 + Cardinality({a \in ar : a.id = e.id})] : e \in rows}

\* The rows matched by WHERE id = $1 AND user_id = $2.
Matching(ev, id, u) == {e \in ev : e.id = id /\ e.user = u}

\* Repository.CreateEvent called directly (as the service and the
\* integration tests do): inserts the row and returns its fresh id.
RepoCreateEvent(u, d) ==
    /\ Alive
    /\ nextId <= MaxEvents
    /\ events' = InsertEvent(events, nextId, u, d)
    /\ nextId' = nextId + 1
    /\ lastOp' = "create"
    /\ lastErr' = "nil"
    /\ UNCHANGED <<archived, lastDel, deleted>>
    /\ UNCHANGED <<envvars, hvars, queue, dvars, gvars, svars, mvars, avars, yvars>>

\* A DeleteEvent that reports success whatever RowsAffected says.
RepoDeleteEventIgnoresCount(id, u) ==
    /\ Alive
    /\ events' = events \ Matching(events, id, u)
    /\ lastErr' = "nil"
    /\ lastOp' = "delete"
    /\ lastDel' = <<id, u>>
    /\ deleted' = deleted \cup {<<id, u>>}
    /\ UNCHANGED <<archived, nextId>>
    /\ UNCHANGED <<envvars, hvars, queue, dvars, gvars, svars, mvars, avars, yvars>>

\* Repository.DeleteEvent(eventID, userID): DELETE ... WHERE id = $1 AND
\* user_id = $2, then ErrEventNotFound when RowsAffected() is 0.
RepoDeleteEvent(id, u) ==
    /\ Alive
    /\ events' = events \ Matching(events, id, u)
    /\ lastErr' = IF Cardinality(Matching(events, id, u)) = 0
                    THEN "ErrEventNotFound" ELSE "nil"
    /\ lastOp' = "delete"
    /\ lastDel' = <<id, u>>
    /\ deleted' = IF Matching(events, id, u) = {}
                    THEN deleted ELSE deleted \cup {<<id, u>>}
    /\ UNCHANGED <<archived, nextId>>
    /\ UNCHANGED <<envvars, hvars, queue, dvars, gvars, svars, mvars, avars, yvars>>

\* An update that also moves the pending reminder of the event to the new
\* reminder_at.
RepoUpdateEventReschedules(id, u, d, at) ==
    /\ Alive
    /\ events' = (events \ Matching(events, id, u)) \cup
                    {[id |-> e.id, user |-> e.user, date |-> d] : e \in Matching(events, id, u)}
    /\ lastErr' = IF Cardinality(Matching(events, id, u)) = 0
                    THEN "ErrEventNotFound" ELSE "nil"
    /\ lastOp' = "update"
    /\ lastUpd' = IF Matching(events, id, u) = {} THEN lastUpd ELSE <<id, at>>
    /\ remindAt' = [r \in Reqs |->
                       IF evId[r] = id /\ remindAt[r] # NoReminder /\ Matching(events, id, u) # {}
                         THEN at ELSE remindAt[r]]
    /\ UNCHANGED <<archived, nextId, lastDel, deleted>>
    /\ UNCHANGED <<hpc, status, evId, result, userOf>>
    /\ UNCHANGED <<envvars, queue, dvars, gvars, svars, mvars, avars, uvars, lvars, query, login>>

\* Repository.UpdateEvent, as Handler.Update reaches it through the service
\* with the decoded event_date d and reminder_at at (NoReminder: absent):
\* the UPDATE rewrites the row matched by id and user_id (reminder_at is a
\* column no goroutine reads; lastUpd keeps the value written), and reports
\* ErrEventNotFound when RowsAffected is 0.  The handler only maps the
\* result to a status.
RepoUpdateEvent(id, u, d, at) ==
    /\ Alive
    /\ events' = (events \ Matching(events, id, u)) \cup
                    {[id |-> e.id, user |-> e.user, date |-> d] : e \in Matching(events, id, u)}
    /\ lastErr' = IF Cardinality(Matching(events, id, u)) = 0
                    THEN "ErrEventNotFound" ELSE "nil"
    /\ lastOp' = "update"
    /\ lastUpd' = IF Matching(events, id, u) = {} THEN lastUpd ELSE <<id, at>>
    /\ UNCHANGED <<archived, nextId, lastDel, deleted>>
    /\ UNCHANGED <<envvars, hvars, queue, dvars, gvars, svars, mvars, avars, uvars, lvars, query, login>>

\* ------------------------------------------------------------- date queries
\* Dates of the calendar are day numbers counted from day 1 of month 1.
DaysIn(m) == IF m % 2 = 1 THEN LongMonth ELSE LongMonth - 1

RECURSIVE FirstDay(_)
FirstDay(m) == IF m = 1 THEN 1 ELSE FirstDay(m - 1) + DaysIn(m - 1)

\* date.Month() and date.Day().
MonthOf(n) == CHOOSE m \in 1..(MaxMonth + 2) : FirstDay(m) <= n /\ n < FirstDay(m + 1)
DayOf(n) == n - FirstDay(MonthOf(n)) + 1

\* time.Date(year, month, day, ...): a day beyond the end of the month is
\* normalised into the following month.
CalDate(m, d) == FirstDay(m) + d - 1

\* The dates a query can be made for, and the dates an event can carry (one
\* month more, so that the month after the last queried one has events).
QueryDates == 1..(FirstDay(MaxMonth + 1) - 1)
CalDates == 1..(FirstDay(MaxMonth + 2) - 1)

\* date.AddDate(0, 1, 0): the same day of the next month, normalised.
AddMonth(n) == CalDate(MonthOf(n) + 1, DayOf(n))

\* time.Date(date.Year(), date.Month(), 1, ...): the first day of date's month.
MonthStart(n) == CalDate(MonthOf(n), 1)

\* WHERE user_id = $1 AND event_date >= $2 AND event_date < $3
EventsBetween(ev, u, start, end) ==
    {e \in ev : e.user = u /\ e.date >= start /\ e.date < end}

\* end := date.AddDate(0, 1, 0)
MonthEnd(date) == AddMonth(date)

\* Repository.GetEventsForMonth(ctx, userID, date): the rows of the user
\* between start and end, or ErrEventNotFound when there are none.
GetEventsForMonth(u, date) ==
    /\ Alive
    /\ LET rows == EventsBetween(events, u, MonthStart(date), MonthEnd(date)) IN
          query' = [op |-> "month", user |-> u, date |-> date, rows |-> rows,
                    err |-> IF rows = {} THEN "ErrEventNotFound" ELSE "nil"]
    /\ UNCHANGED <<envvars, hvars, queue, dvars, gvars, svars, mvars, avars>>
    /\ UNCHANGED <<tvars, uvars, lvars, lastUpd, login>>

\* ------------------------------------------------------------- Create handler
\* A handler without the test reminder_at.After(time.Now()): every request
\* that carries a reminder_at goes on to the enqueue.
CreateEventAnyReminder(r, u, d, at) ==
    /\ Alive /\ Serving
    /\ hpc[r] = "idle"
    /\ \A q \in Reqs : q < r => hpc[q] # "idle"
    /\ events' = InsertEvent(events, nextId, u, d)
    /\ nextId' = nextId + 1
    /\ lastOp' = "create"
    /\ lastErr' = "nil"
    /\ evId' = [evId EXCEPT ![r] = nextId]
    /\ IF at # NoReminder
         THEN /\ hpc' = [hpc EXCEPT ![r] = "enqueue"]
              /\ userOf' = [userOf EXCEPT ![r] = u]
              /\ remindAt' = [remindAt EXCEPT ![r] = at]
              /\ UNCHANGED status
         ELSE /\ hpc' = [hpc EXCEPT ![r] = "done"]
              /\ status' = [status EXCEPT ![r] = 201]
              /\ UNCHANGED <<userOf, remindAt>>
    /\ UNCHANGED <<result, archived, lastDel, deleted>>
    /\ UNCHANGED <<envvars, queue, dvars, gvars, svars, mvars, avars, yvars>>

\* Handler.Create up to the test at create.go:72: the request of user u
\* passed decoding and validation, eventService.CreateEvent inserted the row
\* with event_date d and returned its id, and the request carried
\* reminder_at = at (NoReminder: the field is absent).  userOf and remindAt
\* are the fields of the model.Reminder built at create.go:73-78, which
\* exists only when the test at line 72 passes; without a reminder to
\* schedule the handler goes straight to response.Created.
\* Requests start in the order of their labels (the labels are arbitrary).
CreateEvent(r, u, d, at) ==
    /\ Alive /\ Serving
    /\ hpc[r] = "idle"
    /\ \A q \in Reqs : q < r => hpc[q] # "idle"
    /\ events' = InsertEvent(events, nextId, u, d)
    /\ nextId' = nextId + 1
    /\ lastOp' = "create"
    /\ lastErr' = "nil"
    /\ evId' = [evId EXCEPT ![r] = nextId]
    /\ IF at # NoReminder /\ at > now
         THEN /\ hpc' = [hpc EXCEPT ![r] = "enqueue"]
              /\ userOf' = [userOf EXCEPT ![r] = u]
              /\ remindAt' = [remindAt EXCEPT ![r] = at]
              /\ UNCHANGED status
         ELSE /\ hpc' = [hpc EXCEPT ![r] = "done"]
              /\ status' = [status EXCEPT ![r] = 201]
              /\ UNCHANGED <<userOf, remindAt>>
    /\ UNCHANGED <<result, archived, lastDel, deleted>>
    /\ UNCHANGED <<envvars, queue, dvars, gvars, svars, mvars, avars, yvars>>

\* create.go:60-69: eventService.CreateEvent returned an error; the handler
\* answers 500 and returns without building a reminder.
CreateEventFails(r) ==
    /\ Alive /\ Serving
    /\ hpc[r] = "idle"
    /\ \A q \in Reqs : q < r => hpc[q] # "idle"
    /\ hpc' = [hpc EXCEPT ![r] = "done"]
    /\ status' = [status EXCEPT ![r] = 500]
    /\ lastOp' = "create"
    /\ lastErr' = "error"
    /\ UNCHANGED <<evId, result, remindAt, userOf>>
    /\ UNCHANGED <<events, archived, nextId, lastDel, deleted>>
    /\ UNCHANGED <<envvars, queue, dvars, gvars, svars, mvars, avars, yvars>>

\* The statuses of the early returns of Handler.Create: no user id in the
\* request context (401); undecodable body, failed validation or missing
\* required fields (400).
EarlyStatuses == {401, 400}

\* Handler.Create returns before it calls eventService.CreateEvent.
CreateRejected(r, st) ==
    /\ Alive /\ Serving
    /\ hpc[r] = "idle"
    /\ \A q \in Reqs : q < r => hpc[q] # "idle"
    /\ hpc' = [hpc EXCEPT ![r] = "done"]
    /\ status' = [status EXCEPT ![r] = st]
    /\ UNCHANGED <<evId, result, remindAt, userOf>>
    /\ UNCHANGED <<envvars, queue, dvars, gvars, svars, mvars, avars, xvars>>

\* A send on a buffered channel can proceed when the buffer is not full.
CanSendOffByOne(q) == Len(q) <= QueueCap
CanSend(q) == Len(q) < QueueCap

\* A send that always appends, as on a channel without a capacity limit.
TrySendUnbounded(q, r) == [q |-> Append(q, r), res |-> "accepted"]

\* select { case h.reminderCh <- reminder: ... default: ... }
TrySend(q, r) ==
    IF CanSend(q) THEN [q |-> Append(q, r), res |-> "accepted"]
                  ELSE [q |-> q, res |-> "rejected"]

\* A plain blocking send, h.reminderCh <- reminder, without the default case.
CreateBlockingSend(r) ==
    /\ Alive
    /\ hpc[r] = "enqueue"
    /\ CanSend(queue)
    /\ queue' = Append(queue, r)
    /\ result' = [result EXCEPT ![r] = "accepted"]
    /\ hpc' = [hpc EXCEPT ![r] = "done"]
    /\ status' = [status EXCEPT ![r] = 201]
    /\ UNCHANGED <<evId, remindAt, userOf>>
    /\ UNCHANGED <<envvars, dvars, gvars, svars, mvars, avars, xvars>>

\* A handler that answers 503 when the reminder cannot be queued.
CreateSelectFailsOnFull(r) ==
    /\ Alive
    /\ hpc[r] = "enqueue"
    /\ queue' = TrySend(queue, r).q
    /\ result' = [result EXCEPT ![r] = TrySend(queue, r).res]
    /\ hpc' = [hpc EXCEPT ![r] = "done"]
    /\ status' = [status EXCEPT ![r] =
                     IF TrySend(queue, r).res = "accepted" THEN 201 ELSE 503]
    /\ UNCHANGED <<evId, remindAt, userOf>>
    /\ UNCHANGED <<envvars, dvars, gvars, svars, mvars, avars, xvars>>

\* create.go:80-89: the non-blocking send and the 201 response.  A send on
\* a closed channel panics: the handler ends without writing a response.
CreateSelect(r) ==
    /\ Alive
    /\ hpc[r] = "enqueue"
    /\ hpc' = [hpc EXCEPT ![r] = "done"]
    /\ IF closed
         THEN /\ result' = [result EXCEPT ![r] = "panic"]
              /\ UNCHANGED <<queue, status>>
         ELSE /\ queue' = TrySend(queue, r).q
              /\ result' = [result EXCEPT ![r] = TrySend(queue, r).res]
              /\ status' = [status EXCEPT ![r] = 201]
    /\ UNCHANGED <<evId, remindAt, userOf>>
    /\ UNCHANGED <<envvars, dvars, gvars, svars, mvars, avars, xvars>>

\* ------------------------------------------------------------- Worker.Start
\* The goroutine created by Start is scheduled for the first time.
StartGo ==
    /\ Alive
    /\ dpc = "idle"
    /\ dpc' = "select"
    /\ UNCHANGED <<dcur, wg>>
    /\ UNCHANGED <<envvars, hvars, queue, gvars, svars, mvars, avars, xvars>>

\* A dispatcher that handles one reminder at a time: it receives the next
\* only when the goroutine of the previous one has returned.
StartRecvAfterJoin ==
    /\ Alive
    /\ dpc = "select"
    /\ queue # <<>>
    /\ wg = 0
    /\ dcur' = Head(queue)
    /\ queue' = Tail(queue)
    /\ dpc' = "add"
    /\ UNCHANGED wg
    /\ UNCHANGED <<envvars, hvars, gvars, svars, mvars, avars, xvars>>

\* A receive that reads the head of the buffer without removing it.
StartRecvPeeks ==
    /\ Alive
    /\ dpc = "select"
    /\ queue # <<>>
    /\ dcur' = Head(queue)
    /\ dpc' = "add"
    /\ UNCHANGED <<queue, wg>>
    /\ UNCHANGED <<envvars, hvars, gvars, svars, mvars, avars, xvars>>

\* case r, ok := <-w.ch with ok true: a buffered reminder is received.
StartRecv ==
    /\ Alive
    /\ dpc = "select"
    /\ queue # <<>>
    /\ dcur' = Head(queue)
    /\ queue' = Tail(queue)
    /\ dpc' = "add"
    /\ UNCHANGED wg
    /\ UNCHANGED <<envvars, hvars, gvars, svars, mvars, avars, xvars>>

\* A dispatcher that returns as soon as the channel is closed, leaving what
\* is buffered.
StartRecvClosedAtOnce ==
    /\ Alive
    /\ dpc = "select"
    /\ closed
    /\ dpc' = "wait"
    /\ UNCHANGED <<dcur, wg>>
    /\ UNCHANGED <<envvars, hvars, queue, gvars, svars, mvars, avars, xvars>>

\* case r, ok := <-w.ch with ok false: the channel is closed and its buffer
\* is empty; the dispatcher goes to w.wg.Wait() at worker.go:61.
StartRecvClosed ==
    /\ Alive
    /\ dpc = "select"
    /\ closed
    /\ queue = <<>>
    /\ dpc' = "wait"
    /\ UNCHANGED <<dcur, wg>>
    /\ UNCHANGED <<envvars, hvars, queue, gvars, svars, mvars, avars, xvars>>

\* A dispatcher that counts the reminder in but never starts its goroutine.
StartSpawnForgets ==
    /\ Alive
    /\ dpc = "add"
    /\ wg' = wg + 1
    /\ dcur' = 0
    /\ dpc' = "select"
    /\ UNCHANGED <<gpc, timer, lookup, email, outcome, sent>>
    /\ UNCHANGED <<envvars, hvars, queue, svars, mvars, avars, xvars>>

\* w.wg.Add(1); go w.handleReminder(ctx, r)
StartSpawn ==
    /\ Alive
    /\ dpc = "add"
    /\ wg' = wg + 1
    /\ gpc' = [gpc EXCEPT ![dcur] = "start"]
    /\ dcur' = 0
    /\ dpc' = "select"
    /\ UNCHANGED <<timer, lookup, email, outcome, sent>>
    /\ UNCHANGED <<envvars, hvars, queue, svars, mvars, avars, xvars>>

\* A cancellation branch that also throws away what the queue still holds.
StartCtxDoneDiscards ==
    /\ Alive
    /\ dpc = "select"
    /\ cancelled
    /\ dpc' = "wait"
    /\ queue' = <<>>
    /\ UNCHANGED <<dcur, wg>>
    /\ UNCHANGED <<envvars, hvars, gvars, svars, mvars, avars, xvars>>

\* case <-ctx.Done(): taken when the context is done, whatever the queue holds.
StartCtxDone ==
    /\ Alive
    /\ dpc = "select"
    /\ cancelled
    /\ dpc' = "wait"
    /\ UNCHANGED <<dcur, wg>>
    /\ UNCHANGED <<envvars, hvars, queue, gvars, svars, mvars, avars, xvars>>

\* A dispatcher that returns without waiting for the counter to reach zero.
StartWaitSkipped ==
    /\ Alive
    /\ dpc = "wait"
    /\ dpc' = "done"
    /\ UNCHANGED <<dcur, wg>>
    /\ UNCHANGED <<envvars, hvars, queue, gvars, svars, mvars, avars, xvars>>

\* A Wait that returns only after it has seen some goroutine finish.
StartWaitNeedsDone ==
    /\ Alive
    /\ dpc = "wait"
    /\ wg = 0
    /\ \E r \in Reqs : gpc[r] = "done"
    /\ dpc' = "done"
    /\ UNCHANGED <<dcur, wg>>
    /\ UNCHANGED <<envvars, hvars, queue, gvars, svars, mvars, avars, xvars>>

\* w.wg.Wait(); return (after the close branch or the cancellation branch)
StartWait ==
    /\ Alive
    /\ dpc = "wait"
    /\ wg = 0
    /\ dpc' = "done"
    /\ UNCHANGED <<dcur, wg>>
    /\ UNCHANGED <<envvars, hvars, queue, gvars, svars, mvars, avars, xvars>>

\* One step of the goroutine running Worker.Start.
StartStep ==
    StartGo \/ StartRecv \/ StartRecvClosed \/ StartSpawn \/ StartCtxDone \/ StartWait

\* ------------------------------------------------------------- handleReminder
\* The timer created by time.After(d) has fired: d has passed since it was armed.
TimerElapsedEarly(r) == TRUE
TimerElapsed(r) == now >= timer[r]

\* ctx.Done() is ready.
CtxDoneNever == FALSE
CtxDone == cancelled

\* duration := time.Until(r.RemindAt); if duration > 0 { ... }
HandleUntil(r) ==
    /\ Alive
    /\ gpc[r] = "start"
    /\ IF remindAt[r] - now > 0
         THEN /\ gpc' = [gpc EXCEPT ![r] = "arm"]
              /\ timer' = [timer EXCEPT ![r] = remindAt[r] - now]
         ELSE /\ gpc' = [gpc EXCEPT ![r] = "lookup"]
              /\ UNCHANGED timer
    /\ UNCHANGED <<lookup, email, outcome, sent>>
    /\ UNCHANGED <<envvars, hvars, queue, dvars, svars, mvars, avars, xvars>>

\* The select evaluates time.After(duration): the timer is armed now.
HandleAfter(r) ==
    /\ Alive
    /\ gpc[r] = "arm"
    /\ timer' = [timer EXCEPT ![r] = now + timer[r]]
    /\ gpc' = [gpc EXCEPT ![r] = "wait"]
    /\ UNCHANGED <<lookup, email, outcome, sent>>
    /\ UNCHANGED <<envvars, hvars, queue, dvars, svars, mvars, avars, xvars>>

\* case <-time.After(duration): time to send the reminder.
HandleTimer(r) ==
    /\ Alive
    /\ gpc[r] = "wait"
    /\ TimerElapsed(r)
    /\ gpc' = [gpc EXCEPT ![r] = "lookup"]
    /\ timer' = [timer EXCEPT ![r] = 0]
    /\ UNCHANGED <<lookup, email, outcome, sent>>
    /\ UNCHANGED <<envvars, hvars, queue, dvars, svars, mvars, avars, xvars>>

\* The ctx.Done() case without its return: falls through to the lookup.
HandleCtxDoneFallsThrough(r) ==
    /\ Alive
    /\ gpc[r] = "wait"
    /\ CtxDone
    /\ gpc' = [gpc EXCEPT ![r] = "lookup"]
    /\ timer' = [timer EXCEPT ![r] = 0]
    /\ UNCHANGED <<lookup, email, outcome, sent>>
    /\ UNCHANGED <<envvars, hvars, queue, dvars, svars, mvars, avars, xvars>>

\* case <-ctx.Done(): return (and the deferred w.wg.Done()).
HandleCtxDone(r) ==
    /\ Alive
    /\ gpc[r] = "wait"
    /\ CtxDone
    /\ gpc' = [gpc EXCEPT ![r] = "done"]
    /\ outcome' = [outcome EXCEPT ![r] = "cancelled"]
    /\ wg' = wg - 1
    /\ timer' = [timer EXCEPT ![r] = 0]
    /\ UNCHANGED <<lookup, email, sent>>
    /\ UNCHANGED <<dpc, dcur>>
    /\ UNCHANGED <<envvars, hvars, queue, svars, mvars, avars, xvars>>

\* A handleReminder that only logs the lookup error and goes on to Send.
HandleGetByIDGoesOn(r) ==
    /\ Alive
    /\ gpc[r] = "lookup"
    /\ \/ /\ lookup' = [lookup EXCEPT ![r] = "ok"]
          /\ email' = [email EXCEPT ![r] = EmailOf(userOf[r])]
       \/ /\ lookup' = [lookup EXCEPT ![r] = "err"]
          /\ UNCHANGED email
    /\ gpc' = [gpc EXCEPT ![r] = "send"]
    /\ UNCHANGED <<timer, sent, outcome, wg>>
    /\ UNCHANGED <<dpc, dcur>>
    /\ UNCHANGED <<envvars, hvars, queue, svars, mvars, avars, xvars>>

\* user, err := w.userService.GetByID(ctx, r.UserID); the lookup succeeds
\* with the user's row or fails (no row, database error, cancelled context).
HandleGetByID(r) ==
    /\ Alive
    /\ gpc[r] = "lookup"
    /\ \/ /\ lookup' = [lookup EXCEPT ![r] = "ok"]
          /\ email' = [email EXCEPT ![r] = EmailOf(userOf[r])]
          /\ gpc' = [gpc EXCEPT ![r] = "send"]
          /\ UNCHANGED <<outcome, wg>>
       \/ /\ lookup' = [lookup EXCEPT ![r] = "err"]
          /\ gpc' = [gpc EXCEPT ![r] = "done"]
          /\ outcome' = [outcome EXCEPT ![r] = "lookupfail"]
          /\ wg' = wg - 1
          /\ UNCHANGED email
    /\ UNCHANGED <<timer, sent>>
    /\ UNCHANGED <<dpc, dcur>>
    /\ UNCHANGED <<envvars, hvars, queue, svars, mvars, avars, xvars>>

\* A handleReminder that calls Send again after Send returned an error.
HandleSendRetries(r) ==
    /\ Alive
    /\ gpc[r] = "send"
    /\ sent' = [sent EXCEPT ![r] =
                  Append(@, [to |-> email[r], msg |-> r, at |-> now])]
    /\ \/ /\ gpc' = [gpc EXCEPT ![r] = "done"]
          /\ outcome' = [outcome EXCEPT ![r] = "delivered"]
          /\ wg' = wg - 1
       \/ /\ Len(sent[r]) < 1
          /\ UNCHANGED <<gpc, outcome, wg>>
    /\ UNCHANGED <<timer, lookup, email>>
    /\ UNCHANGED <<dpc, dcur>>
    /\ UNCHANGED <<envvars, hvars, queue, svars, mvars, avars, xvars>>

\* w.notifier.Send(user.Email, reminderMsg): returns nil or an error, which
\* is only logged; then the function returns (deferred w.wg.Done()).
HandleSend(r) ==
    /\ Alive
    /\ gpc[r] = "send"
    /\ sent' = [sent EXCEPT ![r] =
                  Append(@, [to |-> email[r], msg |-> r, at |-> now])]
    /\ gpc' = [gpc EXCEPT ![r] = "done"]
    /\ \E res \in {"delivered", "sendfail"} :
          outcome' = [outcome EXCEPT ![r] = res]
    /\ wg' = wg - 1
    /\ UNCHANGED <<timer, lookup, email>>
    /\ UNCHANGED <<dpc, dcur>>
    /\ UNCHANGED <<envvars, hvars, queue, svars, mvars, avars, xvars>>

\* One step of the goroutine running handleReminder for r.
HandleStep(r) ==
    \/ HandleUntil(r)
    \/ HandleAfter(r)
    \/ HandleTimer(r)
    \/ HandleCtxDone(r)
    \/ HandleGetByID(r)
    \/ HandleSend(r)

\* ------------------------------------------------------------- Worker.Stop
\* Some goroutine calls Stop.
StopCall ==
    /\ Alive
    /\ spc = "idle"
    /\ spc' = "waiting"
    /\ UNCHANGED <<envvars, hvars, queue, dvars, gvars, mvars, avars, xvars>>

\* w.wg.Wait() loads the counter and finds it zero.
StopWait ==
    /\ Alive
    /\ spc = "waiting"
    /\ wg = 0
    /\ spc' = "observed"
    /\ UNCHANGED <<envvars, hvars, queue, dvars, gvars, mvars, avars, xvars>>

\* Wait and then Stop return to the caller.
StopReturn ==
    /\ Alive
    /\ spc = "observed"
    /\ spc' = "returned"
    /\ UNCHANGED <<envvars, hvars, queue, dvars, gvars, mvars, avars, xvars>>

\* ------------------------------------------------------------- main
\* <-ctx.Done() at main.go:104; shutdownCtx is created and s.Shutdown called:
\* the listeners are closed and no new request is accepted.
MainCtxDone ==
    /\ mainPc = "wait"
    /\ cancelled
    /\ mainPc' = "shutdown"
    /\ UNCHANGED <<graceExpired, shutdownErr>>
    /\ UNCHANGED <<envvars, hvars, queue, dvars, gvars, svars, avars, xvars>>

\* The 10 s deadline of shutdownCtx passes.
GraceExpires ==
    /\ mainPc \in {"shutdown", "check"}
    /\ ~graceExpired
    /\ graceExpired' = TRUE
    /\ UNCHANGED <<mainPc, shutdownErr>>
    /\ UNCHANGED <<envvars, hvars, queue, dvars, gvars, svars, avars, xvars>>

\* A request is in flight: its handler has not written its response.
InFlight == {r \in Reqs : hpc[r] = "enqueue"}

\* s.Shutdown returns nil once no request is in flight, or the error of
\* shutdownCtx when the deadline passes first.
MainShutdownReturns ==
    /\ mainPc = "shutdown"
    /\ graceExpired \/ InFlight = {}
    /\ mainPc' = "check"
    /\ shutdownErr' = IF InFlight = {} THEN "nil" ELSE "deadline"
    /\ UNCHANGED graceExpired
    /\ UNCHANGED <<envvars, hvars, queue, dvars, gvars, svars, avars, xvars>>

\* A main without the test of shutdownCtx.Err(): it goes on to close the pool.
MainCheckIgnoresDeadline ==
    /\ mainPc = "check"
    /\ mainPc' = "close"
    /\ UNCHANGED <<graceExpired, shutdownErr>>
    /\ UNCHANGED <<envvars, hvars, queue, dvars, gvars, svars, avars, xvars>>

\* if errors.Is(shutdownCtx.Err(), context.DeadlineExceeded) { log.Fatal }
MainCheck ==
    /\ mainPc = "check"
    /\ mainPc' = IF graceExpired THEN "fatal" ELSE "close"
    /\ UNCHANGED <<graceExpired, shutdownErr>>
    /\ UNCHANGED <<envvars, hvars, queue, dvars, gvars, svars, avars, xvars>>

\* dbPool.Close() and the return from main: the process exits.
MainClose ==
    /\ mainPc = "close"
    /\ mainPc' = "exited"
    /\ UNCHANGED <<graceExpired, shutdownErr>>
    /\ UNCHANGED <<envvars, hvars, queue, dvars, gvars, svars, avars, xvars>>

\* ------------------------------------------------------------- archiver.Worker.Start
\* The ticker fires.  ticker.C has capacity 1: a tick that finds the previous
\* one still unread is dropped.  Ticks that fire while nothing is running and
\* one is already pending change nothing and are left out.
TickerFires ==
    /\ Alive
    /\ apc # "done"
    /\ \/ ~tickPending
       \/ apc = "archiving" /\ ticksInRun < MaxTicks
    /\ tickPending' = TRUE
    /\ ticksInRun' = IF apc = "archiving" THEN ticksInRun + 1 ELSE ticksInRun
    /\ UNCHANGED <<apc, archRunning, archSel, archDate, archAtCancel>>
    /\ UNCHANGED <<envvars, hvars, queue, dvars, gvars, svars, mvars, xvars>>

\* Values of lastOp.  An archive call in progress with no other repository
\* call since it began is "run1", or, when it directly follows a committed
\* archive call, "run2same" (CURRENT_DATE unchanged) or "run2later"; its
\* commit gives "archived", "again" or "againLater"; a commit with other
\* calls in between gives "mixed".
Committed == {"archived", "again", "againLater"}
AfterCommit(op) ==
    CASE op = "run1" -> "archived"
      [] op = "run2same" -> "again"
      [] op = "run2later" -> "againLater"
      [] OTHER -> "mixed"

\* A loop whose select has a default case that archives: a call starts
\* whether or not a tick is pending.
ArchiverTickUnprompted ==
    /\ Alive
    /\ apc = "select"
    /\ tickPending' = FALSE
    /\ apc' = "archiving"
    /\ archRunning' = archRunning + 1
    /\ ticksInRun' = 0
    /\ archAtCancel' = FALSE
    /\ archSel' = OldEvents(events, now)
    /\ archDate' = now
    /\ lastOp' = IF lastOp \in Committed
                   THEN IF archDate = now THEN "run2same" ELSE "run2later"
                   ELSE "run1"
    /\ UNCHANGED <<events, archived, nextId, lastDel, deleted, lastErr>>
    /\ UNCHANGED <<envvars, hvars, queue, dvars, gvars, svars, mvars, yvars>>

\* A loop that starts the archive call in a goroutine of its own and goes
\* back to the select at once.
ArchiverTickAsync ==
    /\ Alive
    /\ apc = "select"
    /\ tickPending
    /\ tickPending' = FALSE
    /\ archRunning' = archRunning + 1
    /\ archSel' = archSel \cup OldEvents(events, now)
    /\ archDate' = now
    /\ lastOp' = "run1"
    /\ UNCHANGED <<apc, ticksInRun>>
    /\ archAtCancel' = FALSE
    /\ UNCHANGED <<events, archived, nextId, lastDel, deleted, lastErr>>
    /\ UNCHANGED <<envvars, hvars, queue, dvars, gvars, svars, mvars, yvars>>

\* case <-ticker.C: ArchiveOldEvents(ctx) is called; it begins its
\* transaction and runs the INSERT ... SELECT (repo.go:139-154).  lastOp
\* records whether this call directly follows a committed one, and whether
\* CURRENT_DATE is still the same.
ArchiverTick ==
    /\ Alive
    /\ apc = "select"
    /\ tickPending
    /\ tickPending' = FALSE
    /\ apc' = "archiving"
    /\ archRunning' = archRunning + 1
    /\ ticksInRun' = 0
    /\ archAtCancel' = FALSE
    /\ archSel' = OldEvents(events, now)
    /\ archDate' = now
    /\ lastOp' = IF lastOp \in Committed
                   THEN IF archDate = now THEN "run2same" ELSE "run2later"
                   ELSE "run1"
    /\ UNCHANGED <<events, archived, nextId, lastDel, deleted, lastErr>>
    /\ UNCHANGED <<envvars, hvars, queue, dvars, gvars, svars, mvars, yvars>>

\* Two statements outside a transaction: a call aborted after the INSERT
\* ... SELECT keeps the copies it made.
ArchiverReturnsNoRollback ==
    /\ Alive
    /\ apc = "archiving"
    /\ apc' = "select"
    /\ archRunning' = archRunning - 1
    /\ ticksInRun' = 0
    /\ archSel' = {}
    /\ \/ /\ events' = events \ OldEvents(events, archDate)
          /\ archived' = ArchiveInsert(archived, archSel)
          /\ lastErr' = "nil"
          /\ lastOp' = AfterCommit(lastOp)
       \/ /\ cancelled
          /\ archived' = ArchiveInsert(archived, archSel)
          /\ lastErr' = "error"
          /\ lastOp' = "failed"
          /\ UNCHANGED events
    /\ UNCHANGED <<tickPending, archDate, archAtCancel>>
    /\ UNCHANGED <<nextId, lastDel, deleted>>
    /\ UNCHANGED <<envvars, hvars, queue, dvars, gvars, svars, mvars, yvars>>

\* A second half of the transaction that commits the copies but leaves the
\* old rows in events.
ArchiverReturnsKeepsRows ==
    /\ Alive
    /\ apc = "archiving"
    /\ apc' = "select"
    /\ archRunning' = archRunning - 1
    /\ ticksInRun' = 0
    /\ archSel' = {}
    /\ archived' = ArchiveInsert(archived, archSel)
    /\ lastErr' = "nil"
    /\ lastOp' = AfterCommit(lastOp)
    /\ UNCHANGED <<tickPending, archDate, archAtCancel>>
    /\ UNCHANGED <<events, nextId, lastDel, deleted>>
    /\ UNCHANGED <<envvars, hvars, queue, dvars, gvars, svars, mvars, yvars>>

\* ArchiveOldEvents runs its DELETE and commits (repo.go:157-167), or, when
\* ctx is done, a statement fails and the deferred Rollback undoes the
\* transaction; either way the call returns and the result is only logged.
\* The DELETE sees the rows committed by now; CURRENT_DATE is the date the
\* transaction started.
ArchiverReturns ==
    /\ Alive
    /\ apc = "archiving"
    /\ apc' = "select"
    /\ archRunning' = archRunning - 1
    /\ ticksInRun' = 0
    /\ archSel' = {}
    /\ \/ /\ events' = events \ OldEvents(events, archDate)
          /\ archived' = ArchiveInsert(archived, archSel)
          /\ lastErr' = "nil"
          /\ lastOp' = AfterCommit(lastOp)
       \/ /\ cancelled
          /\ lastErr' = "error"
          /\ lastOp' = "failed"
          /\ UNCHANGED <<events, archived>>
    /\ UNCHANGED <<tickPending, archDate, archAtCancel>>
    /\ UNCHANGED <<nextId, lastDel, deleted>>
    /\ UNCHANGED <<envvars, hvars, queue, dvars, gvars, svars, mvars, yvars>>

\* A loop that gives up after a failed archive call (return in the error
\* branch).
ArchiverFailsStops ==
    /\ Alive
    /\ apc = "archiving"
    /\ apc' = "done"
    /\ archRunning' = archRunning - 1
    /\ ticksInRun' = 0
    /\ archSel' = {}
    /\ lastErr' = "error"
    /\ lastOp' = "failed"
    /\ UNCHANGED <<tickPending, archDate, archAtCancel>>
    /\ UNCHANGED <<events, archived, nextId, lastDel, deleted>>
    /\ UNCHANGED <<envvars, hvars, queue, dvars, gvars, svars, mvars, yvars>>

\* ArchiveOldEvents returns an error although ctx is not done (BeginTx, a
\* statement or Commit fails on the database side, repo.go:139-165); the
\* deferred Rollback leaves the tables as they were.  The loop logs the
\* error (lines 90-91 of the archiver worker) and goes back to its select.
ArchiverFails ==
    /\ Alive
    /\ apc = "archiving"
    /\ apc' = "select"
    /\ archRunning' = archRunning - 1
    /\ ticksInRun' = 0
    /\ archSel' = {}
    /\ lastErr' = "error"
    /\ lastOp' = "failed"
    /\ UNCHANGED <<tickPending, archDate, archAtCancel>>
    /\ UNCHANGED <<events, archived, nextId, lastDel, deleted>>
    /\ UNCHANGED <<envvars, hvars, queue, dvars, gvars, svars, mvars, yvars>>

\* A cancellation case that only logs and stays in the loop.
ArchiverCtxDoneStays ==
    /\ Alive
    /\ apc = "select"
    /\ cancelled
    /\ apc' = "select"
    /\ UNCHANGED <<tickPending, archRunning, ticksInRun, archSel, archDate, archAtCancel>>
    /\ UNCHANGED <<envvars, hvars, queue, dvars, gvars, svars, mvars, xvars>>

\* case <-ctx.Done(): return; the deferred ticker.Stop() runs.
ArchiverCtxDone ==
    /\ Alive
    /\ apc = "select"
    /\ cancelled
    /\ apc' = "done"
    /\ UNCHANGED <<tickPending, archRunning, ticksInRun, archSel, archDate, archAtCancel>>
    /\ UNCHANGED <<envvars, hvars, queue, dvars, gvars, svars, mvars, xvars>>

\* ------------------------------------------------------------- user Service.Create
\* The rows of users with the given email (users.email carries no UNIQUE
\* constraint in the migration).
UsersWithEmail(us, em) == {x \in us : x.email = em}

\* Service.Create(ctx, email, name, password) is called.  Calls start in the
\* order of their labels (the labels are arbitrary).
UserCreateCall(c, em) ==
    /\ Alive
    /\ upc[c] = "idle"
    /\ \A b \in Calls : b < c => upc[b] # "idle"
    /\ upc' = [upc EXCEPT ![c] = "check"]
    /\ uemail' = [uemail EXCEPT ![c] = em]
    /\ takenAtCall' = [takenAtCall EXCEPT ![c] = UsersWithEmail(users, em) # {}]
    /\ UNCHANGED <<users, createUserCalls, uid, uerr>>
    /\ UNCHANGED <<envvars, hvars, queue, dvars, gvars, svars, mvars, avars, tvars, lvars, qvars>>

\* A Create that does not look the email up before inserting.
UserCheckSkipped(c) ==
    /\ Alive
    /\ upc[c] = "check"
    /\ upc' = [upc EXCEPT ![c] = "hash"]
    /\ UNCHANGED <<users, uemail, takenAtCall, createUserCalls, uid, uerr>>
    /\ UNCHANGED <<envvars, hvars, queue, dvars, gvars, svars, mvars, avars, tvars, lvars, qvars>>

\* _, err := s.userRepo.GetUserByEmail(ctx, email): a row was found (err is
\* nil) and Create returns uuid.Nil, ErrUserAlreadyExists; or no row was
\* found (ErrUserNotFound) and Create goes on.
UserCheck(c) ==
    /\ Alive
    /\ upc[c] = "check"
    /\ IF UsersWithEmail(users, uemail[c]) # {}
         THEN /\ upc' = [upc EXCEPT ![c] = "done"]
              /\ uerr' = [uerr EXCEPT ![c] = "ErrUserAlreadyExists"]
         ELSE /\ upc' = [upc EXCEPT ![c] = "hash"]
              /\ UNCHANGED uerr
    /\ UNCHANGED <<users, uemail, takenAtCall, createUserCalls, uid>>
    /\ UNCHANGED <<envvars, hvars, queue, dvars, gvars, svars, mvars, avars, tvars, lvars, qvars>>

\* hash, err := hashPassword(password): bcrypt succeeds, or fails (a
\* password longer than 72 bytes) and Create returns the wrapped error.
UserHash(c) ==
    /\ Alive
    /\ upc[c] = "hash"
    /\ \/ /\ upc' = [upc EXCEPT ![c] = "insert"]
          /\ UNCHANGED uerr
       \/ /\ upc' = [upc EXCEPT ![c] = "done"]
          /\ uerr' = [uerr EXCEPT ![c] = "hash password"]
    /\ UNCHANGED <<users, uemail, takenAtCall, createUserCalls, uid>>
    /\ UNCHANGED <<envvars, hvars, queue, dvars, gvars, svars, mvars, avars, tvars, lvars, qvars>>

\* id, err := s.userRepo.CreateUser(ctx, user): the row is inserted with a
\* fresh id, which Create returns with a nil error.
UserInsert(c) ==
    /\ Alive
    /\ upc[c] = "insert"
    /\ users' = users \cup {[id |-> Cardinality(users) + 1, email |-> uemail[c]]}
    /\ createUserCalls' = [createUserCalls EXCEPT ![c] = @ + 1]
    /\ uid' = [uid EXCEPT ![c] = Cardinality(users) + 1]
    /\ uerr' = [uerr EXCEPT ![c] = "nil"]
    /\ upc' = [upc EXCEPT ![c] = "done"]
    /\ UNCHANGED <<uemail, takenAtCall>>
    /\ UNCHANGED <<envvars, hvars, queue, dvars, gvars, svars, mvars, avars, tvars, lvars, qvars>>

\* ------------------------------------------------------------- Handler.Login
\* What h.service.GetByEmail can return to the handler: a token with a nil
\* error, ErrInvalidCredentials, ErrUserNotFound (as the handler's test
\* mocks it), or any other error.
LoginResults == {"token", "ErrInvalidCredentials", "ErrUserNotFound", "other"}

\* response.Fail / response.OK: one call of response.JSON, which sets the
\* status with WriteHeader and encodes one JSON body (response.go:16-32).
Write(st, body) == <<[status |-> st, body |-> body]>>

\* The response.* calls Login makes, in order.  The ErrInvalidCredentials
\* branch (handler.go:93-95) has no return: control goes on to the
\* ErrUserNotFound test and then to the final Fail.
LoginWrites(decoded, res) ==
    IF ~decoded THEN Write(400, "invalid request body")
    ELSE IF res = "token" THEN Write(200, "token")
    ELSE (IF res = "ErrInvalidCredentials"
            THEN Write(401, "invalid email or password") ELSE <<>>)
         \o (IF res = "ErrUserNotFound"
               THEN Write(503, "user not found")
               ELSE Write(500, "internal server error"))

\* What the client receives: the status of the first WriteHeader (later
\* calls are superfluous and ignored by net/http) and every encoded body,
\* one after the other.
ResponseOf(writes) ==
    [status |-> IF writes = <<>> THEN 0 ELSE writes[1].status,
     bodies |-> [i \in 1..Len(writes) |-> writes[i].body]]

\* Handler.Login serves request l: the body decodes or not, and the service
\* (called only when it does) returns res.
Login(l, decoded, res) ==
    /\ Alive
    /\ login[l].pc = "idle"
    /\ login' = [login EXCEPT ![l] =
                    [pc |-> "done",
                     res |-> IF decoded THEN res ELSE "none",
                     writes |-> LoginWrites(decoded, res)]]
    /\ UNCHANGED <<query, lastUpd>>
    /\ UNCHANGED <<envvars, hvars, queue, dvars, gvars, svars, mvars, avars, tvars, uvars, lvars>>

\* ------------------------------------------------------------- async logger
\* The logging middleware and StartAsyncLogger (main.go:89-93) are not among
\* the sources; they are modelled from the specification, section 4.2.
\* HTTP statuses a handler may write.
Statuses == {200, 500}

\* The middleware calls the next handler, which writes the response of q.
LogServe(q, st) ==
    /\ Alive
    /\ lpc[q] = "idle"
    /\ lpc' = [lpc EXCEPT ![q] = "served"]
    /\ lresp' = [lresp EXCEPT ![q] = st]
    /\ UNCHANGED <<logResult, logCh, logAccepted, sinkPc, sinkCur, written>>
    /\ UNCHANGED <<envvars, hvars, queue, dvars, gvars, svars, mvars, avars, tvars, uvars, qvars>>

\* An enqueue that waits for room in the channel.
LogEnqueueBlocking(q) ==
    /\ Alive
    /\ lpc[q] = "served"
    /\ Len(logCh) < LogCap
    /\ lpc' = [lpc EXCEPT ![q] = "done"]
    /\ logCh' = Append(logCh, q)
    /\ logAccepted' = Append(logAccepted, q)
    /\ logResult' = [logResult EXCEPT ![q] = "accepted"]
    /\ UNCHANGED <<lresp, sinkPc, sinkCur, written>>
    /\ UNCHANGED <<envvars, hvars, queue, dvars, gvars, svars, mvars, avars, tvars, uvars, qvars>>

\* enqueue(entry): a non-blocking send of the LogEntry of q; when logCh is
\* full the entry is dropped silently.  The response is already written.
LogEnqueue(q) ==
    /\ Alive
    /\ lpc[q] = "served"
    /\ lpc' = [lpc EXCEPT ![q] = "done"]
    /\ IF Len(logCh) < LogCap
         THEN /\ logCh' = Append(logCh, q)
              /\ logAccepted' = Append(logAccepted, q)
              /\ logResult' = [logResult EXCEPT ![q] = "accepted"]
         ELSE /\ logResult' = [logResult EXCEPT ![q] = "dropped"]
              /\ UNCHANGED <<logCh, logAccepted>>
    /\ UNCHANGED <<lresp, sinkPc, sinkCur, written>>
    /\ UNCHANGED <<envvars, hvars, queue, dvars, gvars, svars, mvars, avars, tvars, uvars, qvars>>

\* A sink that takes the newest buffered entry instead of the oldest.
SinkRecvNewest ==
    /\ Alive
    /\ sinkPc = "recv"
    /\ logCh # <<>>
    /\ sinkCur' = logCh[Len(logCh)]
    /\ logCh' = SubSeq(logCh, 1, Len(logCh) - 1)
    /\ sinkPc' = "write"
    /\ UNCHANGED <<lpc, lresp, logResult, logAccepted, written>>
    /\ UNCHANGED <<envvars, hvars, queue, dvars, gvars, svars, mvars, avars, tvars, uvars, qvars>>

\* run(): the single consumer receives the next entry (the channel is never
\* closed by main, so the receive never reports closure).
SinkRecv ==
    /\ Alive
    /\ sinkPc = "recv"
    /\ logCh # <<>>
    /\ sinkCur' = Head(logCh)
    /\ logCh' = Tail(logCh)
    /\ sinkPc' = "write"
    /\ UNCHANGED <<lpc, lresp, logResult, logAccepted, written>>
    /\ UNCHANGED <<envvars, hvars, queue, dvars, gvars, svars, mvars, avars, tvars, uvars, qvars>>

\* run(): the entry is written to the structured logger before the next
\* receive.
SinkWrite ==
    /\ Alive
    /\ sinkPc = "write"
    /\ written' = Append(written, sinkCur)
    /\ sinkCur' = 0
    /\ sinkPc' = "recv"
    /\ UNCHANGED <<lpc, lresp, logResult, logCh, logAccepted>>
    /\ UNCHANGED <<envvars, hvars, queue, dvars, gvars, svars, mvars, avars, tvars, uvars, qvars>>

SinkStep == SinkRecv \/ SinkWrite

\* ------------------------------------------------------------- specifications
\* The reminder subsystem: producers, queue, dispatcher, per-reminder
\* goroutines, the clock and the cancellation signal.
\* NextOn(R): the same with only the requests of R ever arriving.
NextOn(R) ==
    \/ Advance
    \/ Signal
    \/ \E r \in R, at \in {NoReminder} \cup Times :
          CreateEvent(r, UserOfReq(r), EventDateOfReq(r), at)
    \/ \E r \in R : CreateSelect(r)
    \/ StartGo
    \/ StartRecv
    \/ StartSpawn
    \/ StartCtxDone
    \/ StartWait
    \/ \E r \in R : HandleStep(r)

Next == NextOn(Reqs)

Spec == Init /\ [][Next]_vars

\* The producers alone: the goroutine of Worker.Start has not been scheduled
\* yet, so no consumer is running.  Requests carry any event_date.
NextProducers ==
    \/ Advance
    \/ Signal
    \/ \E r \in Reqs, d \in Dates, at \in {NoReminder} \cup Times :
          CreateEvent(r, UserOfReq(r), d, at)
    \/ \E r \in Reqs : CreateSelect(r)

SpecProducers == Init /\ [][NextProducers]_vars

\* The reminder subsystem with a caller of Worker.Stop.
StopStep == StopCall \/ StopWait \/ StopReturn
NextStop == Next \/ StopStep
SpecStop == Init /\ [][NextStop]_vars

\* The process as wired by main: the reminder subsystem (with the requests
\* of FairReqs), the archiver and the shutdown sequence.
MainStep == MainCtxDone \/ GraceExpires \/ MainShutdownReturns \/ MainCheck \/ MainClose
ArchiverStep == TickerFires \/ ArchiverTick \/ ArchiverReturns \/ ArchiverCtxDone
NextMain == NextOn(FairReqs) \/ MainStep \/ ArchiverStep
SpecMain == Init /\ [][NextMain]_vars

\* The goroutines main starts with its ctx (main.go:81-86): the reminder
\* subsystem with the requests of FairReqs, and the archiver loop.
\* Every request carries a reminder for the last instant of the clock.
NextWorkers ==
    \/ Advance
    \/ Signal
    \/ \E r \in FairReqs :
          CreateEvent(r, UserOfReq(r), EventDateOfReq(r), MaxTime)
    \/ \E r \in FairReqs : CreateSelect(r)
    \/ StartGo
    \/ StartRecv
    \/ StartSpawn
    \/ StartCtxDone
    \/ StartWait
    \/ \E r \in FairReqs : HandleStep(r)
    \/ ArchiverStep
SpecWorkers == Init /\ [][NextWorkers]_vars

\* The log pipeline in the process as wired by main (main.go:88-121): the
\* server takes new requests until s.Shutdown is called, and s.Shutdown
\* returns once the requests in flight have passed the middleware.
LogInFlight == {q \in LogReqs : lpc[q] = "served"}
NextLogMain ==
    \/ Signal
    \/ \E q \in LogReqs, st \in Statuses : Serving /\ LogServe(q, st)
    \/ \E q \in LogReqs : LogEnqueue(q)
    \/ SinkStep
    \/ MainCtxDone
    \/ LogInFlight = {} /\ MainShutdownReturns
    \/ MainCheck
    \/ MainClose
SpecLogMain == Init /\ [][NextLogMain]_vars /\ WF_vars(SinkStep)

\* Login requests, each served once.
NextLogin == \E l \in Logins, decoded \in BOOLEAN, res \in LoginResults : Login(l, decoded, res)
SpecLogin == Init /\ [][NextLogin]_vars

\* The Create handlers alone, including requests whose CreateEvent fails.
NextCreate ==
    \/ NextProducers
    \/ \E r \in Reqs : CreateEventFails(r)
SpecCreate == Init /\ [][NextCreate]_vars

\* The Create handlers with every way of returning, and the dispatcher
\* receiving from the queue.
NextHandler ==
    \/ NextCreate
    \/ \E r \in Reqs, st \in EarlyStatuses : CreateRejected(r, st)
    \/ StartGo
    \/ StartRecv
SpecHandler == Init /\ [][NextHandler]_vars

\* The HTTP side and main: requests in flight, the signal and the shutdown
\* sequence, without the background goroutines.
NextShutdown == NextProducers \/ MainStep
SpecShutdown == Init /\ [][NextShutdown]_vars

\* The workers with nothing to do: the dispatcher, a caller of Stop and the
\* archiver loop, with requests that carry no reminder, so that nothing is
\* ever sent to reminderCh.  The goroutines keep being scheduled, an archive
\* call in progress returns, and a select that keeps finding ctx.Done()
\* ready eventually takes it (Go chooses among the ready cases at random).
NextIdle ==
    \/ Advance
    \/ Signal
    \/ \E r \in FairReqs :
          CreateEvent(r, UserOfReq(r), EventDateOfReq(r), NoReminder)
    \/ StartGo
    \/ StartCtxDone
    \/ StartWait
    \/ StopStep
    \/ ArchiverStep
SpecIdle ==
    /\ Init
    /\ [][NextIdle]_vars
    /\ WF_vars(StartGo \/ StartCtxDone \/ StartWait)
    /\ WF_vars(StopWait \/ StopReturn)
    /\ WF_vars(ArchiverReturns)
    /\ SF_vars(ArchiverCtxDone)

\* Concurrent calls of user Service.Create.
NextUsers ==
    \/ \E c \in Calls, em \in Emails : UserCreateCall(c, em)
    \/ \E c \in Calls : UserCheck(c)
    \/ \E c \in Calls : UserHash(c)
    \/ \E c \in Calls : UserInsert(c)
SpecUsers == Init /\ [][NextUsers]_vars

\* The logging pipeline: requests pass the middleware in any order while the
\* sink goroutine, which keeps being scheduled, drains logCh.
NextLog ==
    \/ \E q \in LogReqs, st \in Statuses : LogServe(q, st)
    \/ \E q \in LogReqs : LogEnqueue(q)
    \/ SinkStep
SpecLog == Init /\ [][NextLog]_vars /\ WF_vars(SinkStep)

\* The archiver loop with the events tables: rows are inserted and deleted
\* through the repository while the loop ticks, days pass and the signal
\* may fire.
EventIds == 1..MaxEvents
NextArchiver ==
    \/ Advance
    \/ Signal
    \/ ArchiverStep
    \/ \E u \in Users, d \in Dates : RepoCreateEvent(u, d)
SpecArchiver == Init /\ [][NextArchiver]_vars

\* The archiver loop with a database that may fail; the goroutine of the
\* loop keeps being scheduled, so that an archive call in progress returns.
\* The events are those of one user (the archive statements do not look at
\* user_id).
ArchiverLoop == ArchiverTick \/ ArchiverReturns \/ ArchiverFails \/ ArchiverCtxDone
NextArchiverFaults ==
    \/ Advance
    \/ Signal
    \/ ArchiverStep
    \/ ArchiverFails
    \/ \E d \in Dates : RepoCreateEvent(1, d)
SpecArchiverFaults == Init /\ [][NextArchiverFaults]_vars /\ WF_vars(ArchiverLoop)

\* The events table under direct calls of the repository.
NextRepo ==
    \/ \E u \in Users, d \in Dates : RepoCreateEvent(u, d)
    \/ \E id \in EventIds, u \in Users : RepoDeleteEvent(id, u)
SpecRepo == Init /\ [][NextRepo]_vars

\* The reminder subsystem with one request, while events are updated and
\* deleted through their handlers.  No signal arrives, the goroutines keep
\* being scheduled and the clock reaches every armed deadline.  The id tried
\* is the one the request's row gets; a call by another user finds no row.
EditReqs == {1}
NextEdit ==
    \/ AdvanceLate
    \/ \E r \in EditReqs, at \in {NoReminder} \cup Times :
          CreateEvent(r, UserOfReq(r), EventDateOfReq(r), at)
    \/ \E r \in EditReqs : CreateSelect(r)
    \/ StartGo
    \/ StartRecv
    \/ StartSpawn
    \/ \E r \in EditReqs : HandleUntil(r)
    \/ \E r \in EditReqs : HandleAfter(r)
    \/ \E r \in EditReqs : HandleTimer(r)
    \/ \E r \in EditReqs : HandleGetByID(r)
    \/ \E r \in EditReqs : HandleSend(r)
    \/ \E id \in EditReqs, u \in Users, d \in Dates, at \in {NoReminder} \cup Times :
          RepoUpdateEvent(id, u, d, at)
    \/ \E id \in EditReqs, u \in Users : RepoDeleteEvent(id, u)
SpecEdit ==
    /\ Init
    /\ [][NextEdit]_vars
    /\ WF_vars(StartGo \/ StartRecv \/ StartSpawn)
    /\ \A r \in EditReqs : WF_vars(HandleStep(r))
    /\ WF_vars(AdvanceLate)

\* The reminder subsystem with an owner that may close reminderCh.
\* The dispatcher and the per-reminder goroutines keep being scheduled and
\* time passes until every timer has fired; the requests are those of
\* FairReqs.
NextOnClose(R) == NextOn(R) \/ AdvanceLate \/ Close \/ StartRecvClosed
SpecClose ==
    /\ Init
    /\ [][NextOnClose(FairReqs)]_vars
    /\ WF_vars(StartStep)
    /\ \A r \in FairReqs : WF_vars(HandleStep(r))
    /\ WF_vars(AdvanceLate)

\* The reminder subsystem as the process runs it (the channel is never
\* closed), where every goroutine keeps being scheduled: the handlers, the
\* dispatcher and the per-reminder goroutines; time passes until every timer
\* has fired, and lookups and sends return.
NextLive == NextOn(FairReqs) \/ AdvanceLate
SpecLive ==
    /\ Init
    /\ [][NextLive]_vars
    /\ \A r \in FairReqs : WF_vars(CreateSelect(r))
    /\ WF_vars(StartStep)
    /\ \A r \in FairReqs : WF_vars(HandleStep(r))
    /\ WF_vars(AdvanceLate)

\* The reminder subsystem in normal operation (no signal): requests arrive one
\* after the other, each after the response to the previous one, with
\* reminder times up to one instant beyond MaxTime, so that two reminders
\* alive at once can have different fire times; time passes until every
\* timer has fired.
LateTimes == 1..(MaxTime + 1)
NextIndep ==
    \/ AdvanceLate
    \/ \E r \in Reqs, at \in LateTimes :
          /\ \A q \in Reqs : q < r => hpc[q] = "done"
          /\ CreateEvent(r, UserOfReq(r), EventDateOfReq(r), at)
    \/ \E r \in Reqs : CreateSelect(r)
    \/ StartGo
    \/ StartRecv
    \/ StartSpawn
    \/ \E r \in Reqs : HandleUntil(r)
    \/ \E r \in Reqs : HandleAfter(r)
    \/ \E r \in Reqs : HandleTimer(r)
    \/ \E r \in Reqs : HandleGetByID(r)
    \/ \E r \in Reqs : HandleSend(r)
SpecIndep == Init /\ [][NextIndep]_vars

\* The reminder subsystem where the dispatcher and every per-reminder
\* goroutine keep being scheduled (so lookups and sends return), while
\* nothing forces the clock to advance.
SpecFairWorkers ==
    /\ Init
    /\ [][NextOn(FairReqs)]_vars
    /\ WF_vars(StartStep)
    /\ \A r \in FairReqs : WF_vars(HandleStep(r))

\* The events table with rows on any date of the calendar, and month queries
\* made for any user and date.
NextMonth ==
    \/ \E u \in Users, d \in CalDates : RepoCreateEvent(u, d)
    \/ \E u \in Users, date \in QueryDates : GetEventsForMonth(u, date)
SpecMonth == Init /\ [][NextMonth]_vars

\* The reminder subsystem where every per-reminder goroutine keeps being
\* scheduled; nothing forces the clock to advance.  Liveness is checked with
\* the requests of FairReqs.
SpecFair ==
    Init /\ [][NextOn(FairReqs)]_vars /\ \A r \in FairReqs : WF_vars(HandleStep(r))

\* The reminder subsystem where the dispatcher goroutine keeps being
\* scheduled; neither the clock nor the per-reminder goroutines are forced
\* to move.
SpecFairStart ==
    Init /\ [][NextOn(FairReqs)]_vars /\ WF_vars(StartStep)

\* ------------------------------------------------------------- claims
\* C1: no premature delivery.  Every call of Notifier.Send made for a
\* reminder happens at a time that is not earlier than the reminder's
\* remindAt, whatever the interleaving of requests, dispatcher steps, timer
\* firings and cancellation.
NoPrematureDelivery ==
    \A r \in Reqs : \A i \in 1..Len(sent[r]) : sent[r][i].at >= remindAt[r]

\* A reminder whose goroutine waited and was delivered exactly at remindAt.
DeliveredAtFireTime ==
    \E r \in Reqs : Len(sent[r]) = 1 /\ sent[r][1].at = remindAt[r]

\* C2: at-most-once delivery, no retry.  Send is called at most once per
\* reminder; never without a successful lookup; exactly once when the
\* goroutine has returned after a successful lookup; to the email the lookup
\* of the reminder's userID returned; and a failed Send ends the goroutine
\* with that single call.
AtMostOnceNoRetry ==
    \A r \in Reqs :
        /\ Len(sent[r]) <= 1
        /\ lookup[r] # "ok" => sent[r] = <<>>
        /\ gpc[r] = "done" /\ lookup[r] = "ok" => Len(sent[r]) = 1
        /\ sent[r] # <<>> =>
              /\ sent[r][1].to = EmailOf(userOf[r])
              /\ sent[r][1].msg = r
        /\ outcome[r] = "sendfail" => gpc[r] = "done" /\ Len(sent[r]) = 1

\* A Send that returned an error, with the goroutine gone and no second call.
SendFailedOnce ==
    \E r \in Reqs : outcome[r] = "sendfail" /\ Len(sent[r]) = 1 /\ gpc[r] = "done"

\* C3: scheduling never blocks the request path.  A Create handler that is
\* at its enqueue step can always take it, whatever the queue holds and
\* whatever the dispatcher is doing, and the step ends the handler with the
\* outcome accepted or rejected.
EnqueueNeverBlocks ==
    \A r \in Reqs :
        /\ hpc[r] = "enqueue" => result[r] = "none" /\ ENABLED CreateSelect(r)
        /\ hpc[r] = "done" /\ remindAt[r] # NoReminder =>
              result[r] \in {"accepted", "rejected"}

\* A handler about to send into a full queue whose consumer has terminated.
EnqueueOnFullQueueAfterExit ==
    \E r \in Reqs : hpc[r] = "enqueue" /\ Len(queue) = QueueCap /\ dpc = "done"

\* C4: drop-on-full.  With no consumer running, after N schedule attempts on
\* the queue of capacity C exactly min(N, C) were accepted and max(N - C, 0)
\* rejected, the queue holds exactly the accepted reminders, every accepted
\* send appended its reminder at the tail (send order), and a rejected send
\* left the queue unchanged.
DropOnFullCounts ==
    LET n == Cardinality(Attempted) IN
        /\ dpc = "idle"
        /\ Cardinality(Accepted) = Min(n, QueueCap)
        /\ Cardinality(Rejected) = Max(n - QueueCap, 0)
        /\ Len(queue) = Cardinality(Accepted)
        /\ Range(queue) = Accepted

DropOnFullStep ==
    \A r \in Reqs :
        hpc[r] = "enqueue" /\ hpc'[r] = "done" =>
            IF Len(queue) < QueueCap
              THEN queue' = Append(queue, r) /\ result'[r] = "accepted"
              ELSE queue' = queue /\ result'[r] = "rejected"

BoundedQueue == Len(queue) <= QueueCap

\* A full queue with the dispatcher running and a producer about to send.
FullQueueWithProducer ==
    /\ Len(queue) = QueueCap
    /\ dpc = "select"
    /\ \E r \in Reqs : hpc[r] = "enqueue"

\* C6 as claimed: a goroutine that was waiting on a timer that had not yet
\* elapsed when the cancellation signal fired performs no user lookup and no
\* Send, in that state or any later one.
CancelBeatsPendingTimer ==
    \A r \in pendingAtCancel : lookup[r] = "none" /\ sent[r] = <<>>

\* C6 as amended: a goroutine that leaves its select while the signal has
\* fired and its timer has not yet elapsed takes the cancellation branch: it
\* returns without a lookup and without a Send, and a goroutine that returned
\* that way never performs either.  (When the goroutine is scheduled only
\* after the timer has elapsed too, both cases are ready and either may win.)
CancelWinsUnelapsedStep ==
    \A r \in Reqs :
        gpc[r] = "wait" /\ gpc'[r] # "wait" /\ cancelled /\ now < timer[r] =>
            /\ gpc'[r] = "done"
            /\ outcome'[r] = "cancelled"
            /\ lookup'[r] = "none"
            /\ sent'[r] = <<>>

CancelledStaysUndelivered ==
    \A r \in Reqs :
        outcome[r] = "cancelled" =>
            gpc[r] = "done" /\ lookup[r] = "none" /\ sent[r] = <<>>

CancelBeatsUnelapsedTimer ==
    []CancelledStaysUndelivered /\ [][CancelWinsUnelapsedStep]_vars

\* A goroutine that was waiting when the signal fired and was abandoned
\* before its fire time.
CancelledWhilePending ==
    \E r \in pendingAtCancel : outcome[r] = "cancelled" /\ now < remindAt[r]

\* C7: prompt cancellation.  A goroutine waiting in its select once the
\* signal has fired eventually returns, under weak fairness of the
\* per-reminder goroutines alone: nothing obliges the clock to advance.
PromptCancellation ==
    \A r \in Reqs : (cancelled /\ gpc[r] = "wait") ~> (gpc[r] = "done")

\* A goroutine that returned on cancellation while the clock never moved and
\* its fire time was the farthest one.
ReturnedWithClockFrozen ==
    \E r \in Reqs :
        /\ outcome[r] = "cancelled"
        /\ gpc[r] = "done"
        /\ now = 0
        /\ remindAt[r] = MaxTime

\* C8 as claimed: at the step in which Stop returns no per-reminder
\* goroutine is running.
StopReturnsAfterAllGoroutines ==
    [][spc = "observed" /\ spc' = "returned" =>
          \A r \in Reqs : gpc'[r] \in {"none", "done"}]_vars

\* C9 as claimed: when main has exited after the shutdown signal, the
\* dispatcher goroutine, every per-reminder goroutine and the archiver
\* goroutine have terminated.
LeakFreeExit ==
    mainPc = "exited" =>
        /\ dpc = "done"
        /\ \A r \in Reqs : gpc[r] \in {"none", "done"}
        /\ apc = "done"

QueuedAtCancelKeptOrHanded ==
    \A r \in qAtCancel : InQueue(r) \/ dcur = r \/ gpc[r] # "none"

StrandedStaysStep ==
    dpc \in {"wait", "done"} =>
        \A r \in Reqs : InQueue(r) => r \in Range(queue') /\ gpc'[r] = "none"

AcceptedHandedOver ==
    \A r \in Reqs :
        (result[r] = "accepted") ~> (gpc[r] # "none" \/ cancelled)

\* An accepted reminder that left the queue and got its goroutine while the
\* signal had not fired.
HandedOverBeforeSignal ==
    \E r \in Reqs :
        /\ result[r] = "accepted"
        /\ gpc[r] # "none"
        /\ ~InQueue(r)
        /\ wg > 0
        /\ ~cancelled

\* C12: no overlapping archive runs.  At most one ArchiveOldEvents call
\* started by the archiver loop is in progress, and the loop is inside that
\* call exactly when one is; a call starts only when none is in progress,
\* however many ticks fired while the previous one ran.
AtMostOneArchiveRun ==
    /\ archRunning <= 1
    /\ (archRunning = 1) <=> (apc = "archiving")

ArchiveRunStartsAlone ==
    archRunning' > archRunning => archRunning = 0 /\ apc = "select"

NoOverlappingArchiveRuns ==
    []AtMostOneArchiveRun /\ [][ArchiveRunStartsAlone]_vars

\* An archive call still running after several ticks fired: one tick is
\* waiting in ticker.C, the others were dropped.
SlowArchiveCall ==
    /\ apc = "archiving"
    /\ archRunning = 1
    /\ ticksInRun = MaxTicks
    /\ tickPending

ArchiveSecondRunStep ==
    /\ lastOp \in {"run1", "run2same", "run2later"} /\ lastOp' = "failed" =>
          cancelled /\ events' = events /\ archived' = archived
    /\ lastOp = "run2same" /\ lastOp' = "again" =>
          events' = events /\ archived' = archived
    /\ lastOp = "run2later" /\ lastOp' = "againLater" =>
          /\ events' = events \ OldEvents(events, archDate)
          /\ archived' = ArchiveInsert(archived, OldEvents(events, archDate))
          /\ {a.id : a \in archived' \ archived} =
                {e.id : e \in OldEvents(events, archDate)}

ArchiveNeverDuplicates ==
    /\ \A a \in archived : a.copy = 1
    /\ \A a \in archived, e \in events : a.id # e.id

GracePeriodStates ==
    /\ shutdownErr = "deadline" => graceExpired /\ mainPc \in {"check", "fatal"}
    /\ mainPc \in {"close", "exited"} =>
          cancelled /\ shutdownErr = "nil" /\ InFlight = {}
    /\ mainPc = "fatal" => graceExpired /\ shutdownErr # "none"
    /\ mainPc \in {"wait", "shutdown"} <=> shutdownErr = "none"

GracePeriodStep ==
    /\ mainPc = "check" /\ shutdownErr = "deadline" /\ mainPc' # mainPc =>
          mainPc' = "fatal"
    /\ mainPc = "fatal" => mainPc' = "fatal"
    /\ mainPc' = "exited" /\ mainPc # "exited" => mainPc = "close"

GracePeriodShutdown == []GracePeriodStates /\ [][GracePeriodStep]_vars

\* The fatal exit taken with a request still in flight after the deadline.
FatalWithRequestInFlight ==
    mainPc = "fatal" /\ shutdownErr = "deadline" /\ InFlight # {}

\* C15: idle shutdown is clean.  With the dispatcher and the archiver loop
\* started and no reminder ever scheduled, once the signal has fired both
\* background goroutines terminate, a call of Stop is never blocked and
\* returns, and no per-reminder goroutine exists: no user lookup, no
\* Notifier.Send and no timer wait is ever made.
IdleNothingFired ==
    /\ queue = <<>>
    /\ wg = 0
    /\ \A r \in Reqs :
          /\ gpc[r] = "none"
          /\ timer[r] = 0
          /\ lookup[r] = "none"
          /\ sent[r] = <<>>
    /\ spc = "waiting" => ENABLED StopWait
    /\ dpc = "wait" => ENABLED StartWait

IdleShutdownClean ==
    /\ []IdleNothingFired
    /\ cancelled ~> (dpc = "done" /\ apc = "done")
    /\ (spc = "waiting") ~> (spc = "returned")

\* Signal at time 0: both goroutines gone and Stop returned with the clock
\* still at 0.
IdleAllReturnedAtOnce ==
    /\ cancelled
    /\ now = 0
    /\ dpc = "done"
    /\ apc = "done"
    /\ spc = "returned"
    /\ \A r \in Reqs : hpc[r] = "idle"

\* C16: log ordering.  The entries written by the sink, followed by the one
\* it holds and by those still buffered, are exactly the entries accepted,
\* in acceptance order and without repetition; no dropped entry is among
\* them; and every accepted entry is eventually written.
SinkBacklog ==
    written \o (IF sinkPc = "write" THEN <<sinkCur>> ELSE <<>>) \o logCh

LogOrderStates ==
    /\ SinkBacklog = logAccepted
    /\ \A i, j \in 1..Len(logAccepted) :
          i # j => logAccepted[i] # logAccepted[j]
    /\ \A q \in LogReqs :
          /\ logResult[q] = "accepted" <=> q \in Range(logAccepted)
          /\ logResult[q] = "dropped" => q \notin Range(written)

LogOrdering ==
    /\ []LogOrderStates
    /\ \A q \in LogReqs : (logResult[q] = "accepted") ~> (q \in Range(written))

\* All entries accepted, the first two out of label order, and all written
\* in that order.
WrittenInAcceptanceOrder ==
    /\ Len(written) = MaxLogReq
    /\ written = logAccepted
    /\ written[1] > written[2]

\* C17: log enqueue never affects the request.  A request that has its
\* response can always take the enqueue step, whatever logCh holds and
\* wherever the sink is; the step accepts the entry when logCh has room and
\* drops it when logCh is full, never exceeds the capacity, and leaves the
\* response as the handler wrote it in both cases.
LogEnqueueStates ==
    /\ Len(logCh) <= LogCap
    /\ \A q \in LogReqs :
          /\ lpc[q] = "served" => logResult[q] = "none" /\ ENABLED LogEnqueue(q)
          /\ lpc[q] = "done" => logResult[q] \in {"accepted", "dropped"}
          /\ lpc[q] # "idle" => lresp[q] \in Statuses

LogEnqueueStep ==
    \A q \in LogReqs :
        lpc[q] = "served" /\ lpc'[q] = "done" =>
            /\ lresp'[q] = lresp[q]
            /\ IF Len(logCh) < LogCap
                 THEN logResult'[q] = "accepted" /\ logCh' = Append(logCh, q)
                 ELSE logResult'[q] = "dropped" /\ logCh' = logCh

LogEnqueueNeverAffectsRequest ==
    []LogEnqueueStates /\ [][LogEnqueueStep]_vars

\* An entry dropped on a full logCh while the sink was busy writing, its
\* request answered like one whose entry was accepted.
DroppedWithSameResponse ==
    \E q, a \in LogReqs :
        /\ logResult[q] = "dropped"
        /\ logResult[a] = "accepted"
        /\ lresp[q] = lresp[a]
        /\ Len(logCh) = LogCap
        /\ sinkPc = "write"

\* C18: queue-full leaves the producer unaffected.  A Create request with
\* a future reminder_at ends with status 201 and the id of the row it
\* inserted into events, whether its reminder was accepted or rejected; the
\* send changes neither the id nor the events table, and a rejected send
\* leaves the queue as it was, without the reminder.
ProducerUnaffectedStates ==
    \A r \in Reqs :
        /\ hpc[r] = "done" /\ result[r] \in {"accepted", "rejected"} =>
              /\ status[r] = 201
              /\ evId[r] # 0
              /\ \E e \in events : e.id = evId[r] /\ e.user = userOf[r]
        /\ result[r] = "rejected" => ~InQueue(r)
        /\ status[r] = 500 => evId[r] = 0 /\ result[r] = "none"

ProducerUnaffectedStep ==
    \A r \in Reqs :
        hpc[r] = "enqueue" /\ hpc'[r] = "done" =>
            /\ status'[r] = 201
            /\ evId'[r] = evId[r]
            /\ events' = events
            /\ Len(queue) = QueueCap => queue' = queue /\ result'[r] = "rejected"

ProducerUnaffectedByFullQueue ==
    []ProducerUnaffectedStates /\ [][ProducerUnaffectedStep]_vars

\* Two requests with a reminder, one accepted and one rejected on the full
\* queue, both answered 201 with the ids of their rows.
RejectedAnsweredLikeAccepted ==
    \E r, a \in Reqs :
        /\ result[r] = "rejected" /\ result[a] = "accepted"
        /\ status[r] = 201 /\ status[a] = 201
        /\ evId[r] # evId[a]
        /\ {evId[r], evId[a]} \subseteq {e.id : e \in events}
        /\ Range(queue) = {a}

\* C19: event deletion.  DeleteEvent(eventID, userID) on an existing event
\* of that user removes exactly that row and returns nil; a DeleteEvent that
\* matches no row (unknown id, another user's event, or an event deleted
\* before) returns ErrEventNotFound and leaves the events table unchanged.
DeleteEventCall(id, u) ==
    lastOp' = "delete" /\ lastDel' = <<id, u>> /\ tvars' # tvars

DeleteEventStep ==
    \A id \in EventIds, u \in Users :
        DeleteEventCall(id, u) =>
            /\ IF \E e \in events : e.id = id /\ e.user = u
                 THEN /\ events' = {e \in events : e.id # id}
                      /\ lastErr' = "nil"
                 ELSE /\ events' = events
                      /\ lastErr' = "ErrEventNotFound"
            /\ <<id, u>> \in deleted =>
                  events' = events /\ lastErr' = "ErrEventNotFound"

DeleteEventStates ==
    /\ \A d \in deleted : \A e \in events : e.id # d[1]
    /\ \A e, f \in events : e.id = f.id => e = f
    /\ \A e \in events : e.id < nextId
    /\ lastOp = "delete" =>
          /\ Matching(events, lastDel[1], lastDel[2]) = {}
          /\ lastErr \in {"nil", "ErrEventNotFound"}
          /\ lastErr = "nil" => lastDel \in deleted

TakenEmailStates ==
    \A c \in Calls :
        takenAtCall[c] =>
            /\ upc[c] \in {"check", "done"}
            /\ createUserCalls[c] = 0
            /\ uid[c] = 0
            /\ UsersWithEmail(users, uemail[c]) # {}
            /\ upc[c] = "done" => uerr[c] = "ErrUserAlreadyExists"

TakenEmailStep ==
    \A c \in Calls :
        takenAtCall[c] /\ upc'[c] # upc[c] => users' = users

MonthQueryWindow ==
    [][query' # query =>
          query'.rows = {e \in events : /\ e.user = query'.user
                                        /\ MonthOf(e.date) = MonthOf(query'.date)}]_vars

\* C22: dispatcher join.  The counter of Worker.wg is never negative and
\* always equals the number of per-reminder goroutines that were spawned and
\* have not returned; the dispatcher returns, after a close or after
\* cancellation, only from its Wait and only with the counter at zero; and
\* from the moment it has left its loop it receives nothing from the queue
\* and spawns nothing.
Running == {r \in Reqs : gpc[r] \notin {"none", "done"}}

JoinStates ==
    /\ wg >= 0
    /\ wg = Cardinality(Running)
    /\ dpc \in {"wait", "done"} => dcur = 0
    /\ dpc = "done" => wg = 0 /\ Running = {} /\ (closed \/ cancelled)

JoinStep ==
    /\ dpc' = "done" /\ dpc # "done" => dpc = "wait" /\ wg = 0
    /\ dpc \in {"wait", "done"} =>
          /\ dpc' \in {"wait", "done"}
          /\ \A r \in Range(queue) : r \in Range(queue')
          /\ \A r \in Reqs : gpc[r] = "none" => gpc'[r] = "none"

DispatcherJoin == []JoinStates /\ [][JoinStep]_vars

\* The dispatcher returned after a close, having waited for a goroutine that
\* delivered its reminder.
ReturnedAfterCloseAndDelivery ==
    /\ dpc = "done"
    /\ closed /\ ~cancelled
    /\ \E r \in Reqs : outcome[r] = "delivered" /\ now >= remindAt[r]

\* C23: close drains first.  When reminderCh is closed and the signal has
\* not fired, the dispatcher leaves its loop only once the buffer is empty;
\* every reminder buffered at the time of the close is received and gets its
\* goroutine; and the dispatcher returns, which it does only after all
\* spawned goroutines have returned (so that, by the time it has returned,
\* every reminder buffered at the close has had its goroutine).
CloseDrainStates ==
    dpc \in {"wait", "done"} /\ ~cancelled =>
        /\ closed
        /\ queue = <<>>
        /\ \A r \in qAtClose : gpc[r] # "none"
        /\ dpc = "done" => \A r \in Reqs : gpc[r] \in {"none", "done"}

CloseDrainStep ==
    dpc = "select" /\ dpc' = "wait" /\ ~cancelled => closed /\ queue = <<>>

CloseDrainsFirst ==
    /\ []CloseDrainStates
    /\ [][CloseDrainStep]_vars
    /\ closed ~> (dpc = "done" \/ cancelled)

\* The channel was closed with reminders buffered and the signal never
\* fired: the dispatcher has returned and every one of them has a goroutine
\* that ran to its end.
DrainedAfterClose ==
    /\ dpc = "done"
    /\ ~cancelled
    /\ Cardinality(qAtClose) = Min(QueueCap, Cardinality(FairReqs))
    /\ \A r \in qAtClose : gpc[r] = "done" /\ lookup[r] # "none"

\* C24: per-reminder state machine.  Each reminder is in exactly one of the
\* states Queued, Dropped, Scheduled, Cancelled, Delivered, Abandoned; it
\* starts Queued and moves only from Queued to Dropped or Scheduled and from
\* Scheduled to Cancelled, Delivered or Abandoned; the four terminal states
\* are never left.
IsQueued(r) == hpc[r] = "enqueue" \/ InQueue(r) \/ dcur = r
IsDropped(r) == result[r] = "rejected"
IsScheduled(r) == gpc[r] \in {"start", "arm", "wait", "lookup", "send"}
IsCancelled(r) == outcome[r] = "cancelled"
IsDelivered(r) == outcome[r] = "delivered"
IsAbandoned(r) == outcome[r] \in {"lookupfail", "sendfail"}

PhasesOf(r) ==
    (IF IsQueued(r) THEN {"Queued"} ELSE {}) \cup
    (IF IsDropped(r) THEN {"Dropped"} ELSE {}) \cup
    (IF IsScheduled(r) THEN {"Scheduled"} ELSE {}) \cup
    (IF IsCancelled(r) THEN {"Cancelled"} ELSE {}) \cup
    (IF IsDelivered(r) THEN {"Delivered"} ELSE {}) \cup
    (IF IsAbandoned(r) THEN {"Abandoned"} ELSE {})

\* A reminder exists once the handler has built it (create.go:73-78).
HasReminder(r) == remindAt[r] # NoReminder

PhaseMoves ==
    {<<"Queued", "Dropped">>, <<"Queued", "Scheduled">>,
     <<"Scheduled", "Cancelled">>, <<"Scheduled", "Delivered">>,
     <<"Scheduled", "Abandoned">>}

OnePhaseEach ==
    \A r \in Reqs :
        /\ HasReminder(r) => Cardinality(PhasesOf(r)) = 1
        /\ ~HasReminder(r) => PhasesOf(r) = {}
        /\ Len(SelectSeq(queue, LAMBDA x : x = r)) <= 1

PhaseStep ==
    \A r \in Reqs :
        /\ HasReminder(r) =>
              \/ PhasesOf(r)' = PhasesOf(r)
              \/ \E m \in PhaseMoves : PhasesOf(r) = {m[1]} /\ PhasesOf(r)' = {m[2]}
        /\ ~HasReminder(r) => PhasesOf(r)' \in {{}, {"Queued"}}

ReminderStateMachine == []OnePhaseEach /\ [][PhaseStep]_vars

\* One reminder dropped on the full queue, the other gone through Scheduled
\* to Delivered.
DroppedAndDelivered ==
    \E r, a \in Reqs : PhasesOf(r) = {"Dropped"} /\ PhasesOf(a) = {"Delivered"}

\* C25 as claimed: every reminder the Create handler accepts into the queue
\* eventually reaches one of the terminal states Delivered, Cancelled or
\* Abandoned, also when it is accepted after the signal has fired (under
\* fairness, with time advancing and lookup and send calls returning).
AcceptedReachesTerminal ==
    \A r \in Reqs :
        (result[r] = "accepted") ~>
            (IsDelivered(r) \/ IsCancelled(r) \/ IsAbandoned(r))

\* C26: lookup failure abandons the reminder.  When GetByID returns an
\* error, that step ends the goroutine and decrements the counter; Send is
\* never called for the reminder, then or later; the lookup is not made
\* again; and the step leaves the queue, the dispatcher and every other
\* reminder's goroutine as they were.
LookupFailStates ==
    \A r \in Reqs :
        /\ lookup[r] = "err" =>
              gpc[r] = "done" /\ outcome[r] = "lookupfail" /\ sent[r] = <<>>
        /\ outcome[r] = "lookupfail" => lookup[r] = "err"
        /\ lookup[r] # "none" => now >= remindAt[r]

LookupFailStep ==
    \A r \in Reqs :
        /\ lookup[r] # "err" /\ lookup'[r] = "err" =>
              /\ gpc[r] = "lookup" /\ gpc'[r] = "done"
              /\ wg' = wg - 1
              /\ sent' = sent
              /\ queue' = queue /\ dpc' = dpc /\ dcur' = dcur
              /\ \A q \in Reqs \ {r} :
                    /\ gpc'[q] = gpc[q] /\ timer'[q] = timer[q]
                    /\ lookup'[q] = lookup[q] /\ outcome'[q] = outcome[q]
        /\ lookup[r] = "err" => lookup'[r] = "err" /\ gpc'[r] = "done"

LookupFailureAbandons == []LookupFailStates /\ [][LookupFailStep]_vars

\* A reminder abandoned on a failed lookup after its fire time while another
\* one is still waiting on its timer.
AbandonedBesidePending ==
    \E r, q \in Reqs :
        /\ outcome[r] = "lookupfail" /\ now >= remindAt[r]
        /\ gpc[q] = "wait"
        /\ wg = 1

\* C27: reminders are independent.  The dispatcher never waits on a
\* reminder's timer, lookup or send: whenever it is at its select and the
\* queue holds a reminder it can receive it, whatever the goroutines it
\* spawned are doing, and it can always spawn what it received; a goroutine
\* whose timer has elapsed can go on whatever the others are doing; and no
\* step of the dispatcher or of a goroutine changes another reminder's
\* goroutine.  So a reminder accepted later with an earlier remindAt is
\* delivered first.
IndependentStates ==
    /\ dpc = "select" /\ queue # <<>> => ENABLED StartRecv
    /\ dpc = "add" => ENABLED StartSpawn
    /\ \A r \in Reqs :
          /\ gpc[r] = "start" => ENABLED HandleUntil(r)
          /\ gpc[r] = "wait" /\ now >= timer[r] => ENABLED HandleTimer(r)
          /\ gpc[r] = "lookup" => ENABLED HandleGetByID(r)
          /\ gpc[r] = "send" => ENABLED HandleSend(r)

IndependentStep ==
    /\ dpc' # dpc =>
          \A r \in Reqs : gpc'[r] # gpc[r] => dcur = r /\ gpc'[r] = "start"
    /\ \A r, q \in Reqs :
          r # q /\ gpc'[r] # gpc[r] =>
              /\ gpc'[q] = gpc[q] /\ timer'[q] = timer[q]
              /\ lookup'[q] = lookup[q] /\ sent'[q] = sent[q]

RemindersIndependent == []IndependentStates /\ [][IndependentStep]_vars

\* Reminder b was accepted after reminder a, whose remindAt is later; b has
\* been delivered at its own fire time while a is still waiting on its timer.
LaterAcceptedDeliveredFirst ==
    \E a, b \in Reqs :
        /\ a < b
        /\ result[a] = "accepted" /\ result[b] = "accepted"
        /\ remindAt[a] > remindAt[b]
        /\ outcome[b] = "delivered" /\ sent[b][1].at = remindAt[b]
        /\ gpc[a] = "wait" /\ now < remindAt[a]

\* C28: dispatcher shutdown does not wait for fire times.  Once the signal
\* has fired the dispatcher goroutine eventually returns, under weak
\* fairness of the dispatcher and of the per-reminder goroutines alone: the
\* clock need not advance.
ShutdownNotBoundByFireTime == cancelled ~> (dpc = "done")

\* The dispatcher has returned with the clock still at 0, after a goroutine
\* whose fire time was the farthest one returned on cancellation.
DispatcherReturnedClockFrozen ==
    /\ cancelled
    /\ dpc = "done"
    /\ now = 0
    /\ \E r \in Reqs :
          /\ r \in pendingAtCancel
          /\ remindAt[r] = MaxTime
          /\ outcome[r] = "cancelled"

\* C29: archive failure is not sticky.  When ArchiveOldEvents returns an
\* error the loop goes back to its select with no call in progress and
\* without touching the ticker; a call starts only by taking a tick from
\* ticker.C, after a failure as after a success; a pending tick can always
\* be taken at the select, whatever the previous call returned; and the loop
\* ends only from its select with the signal fired.
ArchiveFailedStep == apc = "archiving" /\ apc' # "archiving" /\ lastErr' = "error"

FailureNotStickyStep ==
    /\ ArchiveFailedStep =>
          /\ apc' = "select"
          /\ archRunning' = 0
          /\ tickPending' = tickPending
          /\ events' = events /\ archived' = archived
    /\ archRunning' > archRunning =>
          apc = "select" /\ tickPending /\ ~tickPending' /\ apc' = "archiving"
    /\ apc # "done" /\ apc' = "done" => apc = "select" /\ cancelled

FailureNotStickyStates ==
    /\ apc = "select" /\ tickPending => ENABLED ArchiverTick
    /\ apc = "done" => cancelled
    /\ lastOp = "failed" => lastErr = "error" /\ apc \in {"select", "done"}

ArchiveFailureNotSticky == []FailureNotStickyStates /\ [][FailureNotStickyStep]_vars

\* The signal has not fired; the previous archive call failed and left old
\* events in the table; the call of the next tick is in progress and has
\* selected them.
RetriedOnNextTick ==
    /\ ~cancelled
    /\ apc = "archiving"
    /\ lastErr = "error"
    /\ lastOp = "run1"
    /\ archSel # {}

ArchiverGoneStep ==
    apc = "done" =>
        /\ apc' = "done"
        /\ archRunning' = 0
        /\ tickPending' = tickPending
        /\ archived' = archived
        /\ lastOp' \notin {"run1", "run2same", "run2later"} \/ lastOp' = lastOp

ArchiveCallAtCancelReturns == archAtCancel /\ apc = "archiving" /\ apc' # "archiving"

\* What a call commits when nothing interrupts it: the rows of the INSERT
\* ... SELECT are in archived_events and the old rows are gone from events.
ArchiveCommits ==
    /\ lastErr' = "nil"
    /\ events' = events \ OldEvents(events, archDate)
    /\ archived' = ArchiveInsert(archived, archSel)

\* A call that cancellation aborted: the error is returned and the rollback
\* leaves both tables as they were.
ArchiveRolledBack ==
    /\ lastErr' = "error"
    /\ events' = events
    /\ archived' = archived

\* C31, as stated: an archive call in progress when the cancellation signal
\* fires is not interrupted; it runs to completion with the outcome it
\* would have had without the cancellation, that is, it commits.
ArchiveCallUninterrupted ==
    [][ArchiveCallAtCancelReturns => ArchiveCommits]_vars

\* C31, amended: the loop does not abandon an archive call in progress when
\* the signal fires (the goroutine goes back to its select, and returns,
\* only after the call has returned), but the call itself may be
\* interrupted: it either commits as it would have without the
\* cancellation or fails with both tables unchanged.
ArchiveCallAtCancel ==
    /\ [](archAtCancel => cancelled)
    /\ [](apc = "done" => archRunning = 0)
    /\ [][ArchiveCallAtCancelReturns =>
            /\ apc' = "select"
            /\ archRunning' = archRunning - 1
            /\ ArchiveCommits \/ ArchiveRolledBack]_vars

\* The call in progress at the signal had old rows to move, was aborted,
\* and the loop has returned with the rows still in events.
ArchiveCallAborted ==
    /\ archAtCancel
    /\ apc = "done"
    /\ lastErr = "error"
    /\ OldEvents(events, archDate) # {}
    /\ archived = {}

\* ------------------------------------------------------------- C32
\* A step that starts a call of ArchiveOldEvents.
ArchiveCallStarts == archRunning' > archRunning

\* C32, as stated: once the cancellation signal has fired the archiver loop
\* starts no new ArchiveOldEvents invocation, also when a tick was already
\* pending when the signal fired.
NoArchiveCallAfterCancel ==
    [][cancelled => ~ArchiveCallStarts]_vars

\* C32, amended: once the signal has fired the loop starts a new invocation
\* only from a select at which a tick is pending, where the tick and the
\* cancellation are both ready and either may be taken; a select that
\* finds no tick pending can only return, and after the goroutine has
\* returned no invocation starts.
ArchiveCallAfterCancelNeedsTick ==
    /\ [][(cancelled /\ ArchiveCallStarts) =>
            (tickPending /\ apc = "select" /\ ENABLED ArchiverCtxDone)]_vars
    /\ [][(cancelled /\ ~tickPending /\ apc = "select" /\ apc' # apc) =>
            (apc' = "done" /\ ~ArchiveCallStarts)]_vars
    /\ [][apc = "done" => (apc' = "done" /\ ~ArchiveCallStarts)]_vars

\* A call that started after the signal had fired is in progress.
ArchiveCallStartedAfterCancel ==
    /\ cancelled
    /\ apc = "archiving"
    /\ ~archAtCancel

\* ------------------------------------------------------------- C33
\* C33: archiving loses no event.  Whatever CreateEvent calls commit while
\* an archive run is in progress, every row the run removes from events is
\* in archived_events once the run has committed, the rows whose
\* event_date is not before CURRENT_DATE stay in events, and a run that
\* fails changes neither table.
ArchiveLosesNoEvent ==
    [][(apc = "archiving" /\ apc' # "archiving") =>
          IF lastErr' = "nil"
            THEN /\ \A e \in events \ events' : \E a \in archived' : a.id = e.id
                 /\ \A e \in events : e.date >= archDate => e \in events'
            ELSE events' = events /\ archived' = archived]_vars

\* ------------------------------------------------------------- C34
\* The readers of the signal: each one's cancellation case is ready exactly
\* when the one context of main is done.
SameSignal ==
    /\ dpc = "select" => (ENABLED StartCtxDone <=> cancelled)
    /\ \A r \in Reqs : gpc[r] = "wait" => (ENABLED HandleCtxDone(r) <=> cancelled)
    /\ apc = "select" => (ENABLED ArchiverCtxDone <=> cancelled)

\* A reader that has taken its cancellation case did so after the signal.
ObservedOnlyFired ==
    /\ dpc \in {"wait", "done"} => cancelled
    /\ \A r \in Reqs : outcome[r] = "cancelled" => cancelled
    /\ apc = "done" => cancelled

\* C34: one-shot cancellation.  Once the signal has fired it stays fired in
\* every later state, and the dispatcher, every per-reminder goroutine and
\* the archiver loop all observe that one signal.
OneShotCancellation ==
    /\ [][cancelled => cancelled']_vars
    /\ [](SameSignal /\ ObservedOnlyFired)

\* The dispatcher, a per-reminder goroutine and the archiver loop have all
\* returned on the signal.
AllObservedSignal ==
    /\ cancelled
    /\ dpc = "done"
    /\ apc = "done"
    /\ \E r \in Reqs : outcome[r] = "cancelled"

\* ------------------------------------------------------------- C35
\* C35: log sink termination.  In the process as wired by main every log
\* entry accepted before shutdown has been written, and the sink has
\* returned to an empty queue, when the process exits.
LogDrainedAtExit ==
    mainPc = "exited" => (written = logAccepted /\ logCh = <<>> /\ sinkPc = "recv")

\* ------------------------------------------------------------- C36
\* The handler of r returns, or goes on to the select, in this step.
CreateLeavesIdle(r) == hpc[r] = "idle" /\ hpc'[r] # "idle"

\* The row CreateEvent saved for r.
SavedEvent(r) == {e \in events : e.id = evId[r]}

\* The enqueue is attempted for a saved event with a future reminder time,
\* and for every such request; a handler that returns without the attempt
\* leaves the queue alone; only an attempt adds to the queue.
EnqueueOnlyStep ==
    /\ \A r \in Reqs :
          /\ (CreateLeavesIdle(r) /\ hpc'[r] = "enqueue") =>
                /\ evId'[r] # 0
                /\ \E e \in events' : e.id = evId'[r]
                /\ remindAt'[r] # NoReminder
                /\ remindAt'[r] > now
                /\ queue' = queue
          /\ (CreateLeavesIdle(r) /\ hpc'[r] = "done") =>
                /\ queue' = queue
                /\ result'[r] = "none"
                /\ remindAt'[r] = NoReminder
          /\ \A u \in Users, d \in Dates, at \in {NoReminder} \cup Times :
                CreateEvent(r, u, d, at) =>
                    (hpc'[r] = "enqueue" <=> (at # NoReminder /\ at > now))
          /\ \A st \in EarlyStatuses : CreateRejected(r, st) => hpc'[r] = "done"
          /\ CreateEventFails(r) => hpc'[r] = "done"
    /\ Len(queue') > Len(queue) =>
          \E r \in Reqs : hpc[r] = "enqueue" /\ hpc'[r] = "done" /\ queue' = Append(queue, r)

\* A request is attempted, or buffered, only with a saved event and a
\* reminder time; a request answered with an error status was never
\* attempted.
EnqueueOnlyStates ==
    \A r \in Reqs :
        /\ (hpc[r] = "enqueue" \/ result[r] # "none" \/ InQueue(r)) =>
              (evId[r] # 0 /\ remindAt[r] # NoReminder)
        /\ status[r] \in EarlyStatuses \cup {500} =>
              (result[r] = "none" /\ ~InQueue(r) /\ evId[r] = 0)

\* C36: a reminder is enqueued only for a saved event with a future reminder
\* time.  The Create handler attempts the enqueue if and only if CreateEvent
\* succeeded and reminder_at is present and strictly after the current
\* time; in every other case the reminder queue is left unchanged.
EnqueueOnlyForFutureReminder ==
    []EnqueueOnlyStates /\ [][EnqueueOnlyStep]_vars

\* One request was turned away before CreateEvent while another, saved with
\* a future reminder, has its reminder in the queue.
AttemptedBesideReturned ==
    \E r, q \in Reqs :
        /\ status[r] \in EarlyStatuses
        /\ result[q] = "accepted" /\ SavedEvent(q) # {}
        /\ queue = <<q>>

\* ------------------------------------------------------------- C37
\* A call of UpdateEvent or DeleteEvent is made in this step.
EditStep ==
    /\ lastOp' \in {"update", "delete"}
    /\ <<events, lastOp, lastErr, lastUpd, lastDel>>' # <<events, lastOp, lastErr, lastUpd, lastDel>>

\* The reminder of r is with the reminder subsystem: attempted and not yet
\* through its goroutine.
ReminderPending(r) == result[r] = "accepted" /\ gpc[r] # "done"

\* An update or delete changes nothing of the reminder subsystem, and the
\* remindAt of a reminder never changes once it is built.
EditFrameStep ==
    /\ EditStep =>
          /\ queue' = queue
          /\ UNCHANGED <<dpc, dcur, wg>>
          /\ UNCHANGED <<gpc, timer, lookup, email, outcome, sent>>
          /\ UNCHANGED <<hpc, result, remindAt, userOf>>
          /\ cancelled' = cancelled
    /\ \A r \in Reqs : remindAt[r] # NoReminder => remindAt'[r] = remindAt[r]

\* A pending timer stays able to fire whatever became of the event's row,
\* and no reminder is sent before its remindAt.
EditFrameStates ==
    \A r \in Reqs :
        /\ (gpc[r] = "wait" /\ TimerElapsed(r)) => ENABLED HandleTimer(r)
        /\ gpc[r] = "lookup" => ENABLED HandleGetByID(r)
        /\ \A i \in 1..Len(sent[r]) : sent[r][i].at >= remindAt[r]

\* C37: updating or deleting an event leaves the reminder subsystem
\* unchanged.  Update (also with a new reminder_at) and Delete neither
\* enqueue nor cancel anything: the queue and the pending timers are the
\* same before and after, and a reminder scheduled at creation still fires
\* at its original remindAt.
EditsLeaveRemindersAlone ==
    /\ [][EditFrameStep]_vars
    /\ []EditFrameStates
    /\ \A r \in EditReqs :
          (gpc[r] = "wait") ~> (gpc[r] = "done" /\ outcome[r] # "cancelled")

\* The timer of a reminder is pending although the row of its event was
\* updated with another reminder_at and then deleted.
TimerPendingForDeletedEvent ==
    \E r \in Reqs :
        /\ gpc[r] = "wait" /\ now < timer[r]
        /\ lastUpd[1] = evId[r] /\ lastUpd[2] # remindAt[r]
        /\ <<evId[r], userOf[r]>> \in deleted
        /\ \A e \in events : e.id # evId[r]

\* ------------------------------------------------------------- C38
\* C38: email uniqueness under concurrency.  After any interleaving of
\* concurrent Service.Create calls no two rows of users have the same
\* email, and of the calls made with one email at most one has succeeded.
EmailUniqueUnderConcurrency ==
    /\ \A x, y \in users : x.email = y.email => x = y
    /\ \A b, c \in Calls :
          (uerr[b] = "nil" /\ uerr[c] = "nil" /\ uemail[b] = uemail[c]) => b = c

\* ------------------------------------------------------------- C39
\* C39: the Login handler writes exactly one response per request on every
\* path, one status code and one JSON body; when the service returns
\* ErrInvalidCredentials the response is 401 with a single error body.
LoginWritesOnce ==
    \A l \in Logins :
        login[l].pc = "done" =>
            /\ Len(login[l].writes) = 1
            /\ Len(ResponseOf(login[l].writes).bodies) = 1
            /\ login[l].res = "ErrInvalidCredentials" =>
                  ResponseOf(login[l].writes) =
                      [status |-> 401, bodies |-> <<"invalid email or password">>]
====
